---- MODULE Spec2Model ----
(***************************************************************************)
(* A model of the CServer worker pool (src/src/thread_pool.c) and of its   *)
(* sliding-window rate limiter (check_rate_limit in server.c).             *)
(*                                                                         *)
(* Two specifications share the module:                                    *)
(*   Spec     the worker pool: worker threads, one submitting thread (the  *)
(*            acceptor calling thread_pool_add) and two threads that each  *)
(*            call thread_pool_destroy once; FairSpec adds the fairness a  *)
(*            preemptive scheduler gives running threads.                  *)
(*   SpecRL   the rate limiter: check_rate_limit called for a small set of *)
(*            client addresses while the clock advances.                   *)
(***************************************************************************)
EXTENDS Integers, Sequences, FiniteSets, TLC

(* ------------------------------ bounds --------------------------------- *)

\* pool->size: the number of worker threads thread_pool_create starts.
NumWorkers == 2

\* pool->queue_size: the capacity of the circular task queue.
QueueSize == 2

\* The number of connections the acceptor submits in a run.
MaxTasks == 5

Workers == 1..NumWorkers
Tasks == 1..MaxTasks
Slots == 0..(QueueSize - 1)

\* The two threads that call thread_pool_destroy on the same pool.
Destroyers == {"d1", "d2"}

\* A NULL task pointer (an empty queue slot, a worker holding no task).
NoTask == 0

\* Thread identities, as owners of pool->lock.
NoOwner == <<"none", 0>>
AcceptorId == <<"acceptor", 0>>
WorkerId(w) == <<"worker", w>>
DestroyerId(d) == <<"destroyer", IF d = "d1" THEN 1 ELSE 2>>

VARIABLES
    \* ---- thread_pool_t
    queue,          \* pool->queue: slot -> task or NoTask
    head,           \* pool->head
    tail,           \* pool->tail
    count,          \* pool->count
    shutdown,       \* pool->shutdown
    lock,           \* the owner of pool->lock
    poolFreed,      \* how many times the pool's resources were released
    \* ---- worker threads
    wpc,            \* worker -> "lock" | "check" | "wait" | "run" | "exited"
    wtask,          \* worker -> the task it dequeued (NoTask when none)
    \* ---- the acceptor (caller of thread_pool_add)
    apc,            \* "idle" | "locked"
    nextTask,       \* the next task to submit
    results,        \* task -> what thread_pool_add returned: "none" (not yet
                    \* submitted), "ok" (0), "fail" (-1), or "ub_ok", "ub_fail"
                    \* (0, -1 returned by a call that ran on the freed pool)
    \* ---- callers of thread_pool_destroy
    dpc,            \* destroyer -> "start" | "check" | "join" | "cleanup" | "done" | "hung"
    dpath,          \* destroyer -> "none" | "set" | "early" | "ub": the branch taken
    joinIdx,        \* destroyer -> the index i of the join loop
    \* ---- history
    dequeued,       \* the tasks in the order the workers dequeued them
    executed,       \* the tasks whose connection handler ran to completion
    closedByDestroy,\* the queued tasks thread_pool_destroy closed and freed
    uaf,            \* the threads that touched the pool after it was freed
    \* ---- rate limiter (SpecRL)
    cfg,            \* config: enable_rate_limit, rate_limit_max, rate_limit_interval
    rlInit,         \* rate_limit_initialized
    table,          \* rate_limit_table: slot -> entry
    now,            \* the value time(NULL) returns
    calls,          \* the check_rate_limit calls made, in order: [a, t, r],
                    \* the address, the time of the call and what it returned
    rejOldest,      \* address -> the oldest timestamp counted by the latest
                    \* check for it when that check was rejected, else NoTime
    \* ---- concurrent check_rate_limit calls (SpecRLC)
    cpc,            \* worker -> its position in check_rate_limit
    caddr,          \* worker -> the client_ip argument of its call
    cloc,           \* worker -> its locals [t, limited]: now and is_limited
    mtx,            \* slot -> the worker holding entry->mutex, or NoHolder
    \* ---- handle_client for one connection (SpecConn)
    hpc,            \* the position of the handler in handle_client
    request,        \* http_request_t request
    response,       \* http_response_t response (or rate_limit_response)
    result,         \* what parse_http_request returned
    conn,           \* what the handler has done on the socket so far
    \* ---- the main thread and its signal handler (SpecSig)
    sg,             \* server_start, handle_signal and server_stop: positions,
                    \* log_mutex, pool->lock, server_socket, thread_pool
    \* ---- parse_http_request in several workers (SpecParse)
    ps              \* the parsers' buffers and positions, strtok's saved pointer

poolVars == <<queue, head, tail, count, shutdown, lock, poolFreed, wpc, wtask,
              apc, nextTask, results, dpc, dpath, joinIdx, dequeued, executed,
              closedByDestroy, uaf>>
rlVars == <<cfg, rlInit, table, now, calls, rejOldest>>
rcVars == <<cpc, caddr, cloc, mtx>>
hcVars == <<hpc, request, response, result, conn>>
sgVars == <<sg>>
psVars == <<ps>>
vars == <<poolVars, rlVars, rcVars, hcVars, sgVars, psVars>>

(* ------------------------- thread_pool.c helpers ----------------------- *)

\* (i + 1) % pool->queue_size: the successor of a circular index.
NextIndex(i) == (i + 1) % QueueSize

\* The workers blocked in pthread_cond_wait on pool->notify.
Waiting == {w \in Workers : wpc[w] = "wait"}

\* Mutant: the full test compares with > instead of ==.
QueueFull_Gt == count > QueueSize

\* thread_pool_add: pool->count == pool->queue_size.
QueueFull == count = QueueSize

\* Mutant: thread_pool_add does not look at the shutdown flag.
AddSeesShutdown_Never == FALSE

\* thread_pool_add: if (pool->shutdown).
AddSeesShutdown == shutdown

\* Mutant: the worker waits only for the shutdown flag, not for a task
\* (it goes on to dequeue from an empty queue).
WaitCond_NoCount == FALSE

\* worker_thread: while (pool->count == 0 && !pool->shutdown).
WaitCond == count = 0 /\ ~shutdown

\* Mutant: a worker leaves only once the queue is drained.
ExitCond_Drain == shutdown /\ count = 0

\* worker_thread: if (pool->shutdown), evaluated after the wait loop.
ExitCond == shutdown

\* Mutant: the worker takes the most recently queued task.
DequeueSlot_Lifo == (tail + QueueSize - 1) % QueueSize

\* worker_thread: the slot a worker takes its task from, pool->head.
DequeueSlot == head

\* Mutant: the worker leaves the task pointer in the slot it took it from.
TakenSlot_Kept(q, slot) == q

\* worker_thread: pool->queue[pool->head] = NULL.
TakenSlot(q, slot) == [q EXCEPT ![slot] = NoTask]

\* Mutant: the worker keeps pool->lock while it runs the handler.
LockAfterDequeue_Held(w) == WorkerId(w)

\* worker_thread: pthread_mutex_unlock(&pool->lock) before the task is
\* executed.
LockAfterDequeue(w) == NoOwner

\* Mutant: pthread_join returns without waiting for the thread.
JoinReady_NoWait(i) == TRUE

\* pthread_join(pool->threads[i]) returns once worker i has terminated.
JoinReady(i) == wpc[i] = "exited"

\* Mutant: pthread_cond_signal in place of the broadcast (one waiter woken).
BroadcastWoken_One == IF Waiting = {} THEN {} ELSE {CHOOSE w \in Waiting : TRUE}

\* pthread_cond_broadcast(&pool->notify): every waiting worker is woken.
BroadcastWoken == Waiting

\* Mutant: the signal of thread_pool_add wakes nobody.
SignalTargets_None == {}

\* pthread_cond_signal(&pool->notify): one of the workers blocked on the
\* condition, if there is any, is woken.
SignalTargets == Waiting

(* ---------------------------- worker_thread ---------------------------- *)

\* pthread_mutex_lock(&pool->lock) at the top of the loop, or the
\* re-acquisition of the mutex when pthread_cond_wait returns.
W_Lock(w) ==
    /\ wpc[w] = "lock"
    /\ lock = NoOwner
    /\ lock' = WorkerId(w)
    /\ wpc' = [wpc EXCEPT ![w] = "check"]
    /\ UNCHANGED <<sgVars, psVars, rlVars, rcVars, hcVars, queue, head, tail, count, shutdown, poolFreed, wtask, apc,
                   nextTask, results, dpc, dpath, joinIdx, dequeued, executed,
                   closedByDestroy, uaf>>

\* The wait loop's condition holds: pthread_cond_wait releases the mutex and
\* blocks the worker.
W_Wait(w) ==
    /\ wpc[w] = "check"
    /\ WaitCond
    /\ lock' = NoOwner
    /\ wpc' = [wpc EXCEPT ![w] = "wait"]
    /\ UNCHANGED <<sgVars, psVars, rlVars, rcVars, hcVars, queue, head, tail, count, shutdown, poolFreed, wtask, apc,
                   nextTask, results, dpc, dpath, joinIdx, dequeued, executed,
                   closedByDestroy, uaf>>

\* A spurious wake-up, which pthread_cond_wait permits.
W_Spurious(w) ==
    /\ wpc[w] = "wait"
    /\ wpc' = [wpc EXCEPT ![w] = "lock"]
    /\ UNCHANGED <<sgVars, psVars, rlVars, rcVars, hcVars, queue, head, tail, count, shutdown, lock, poolFreed, wtask,
                   apc, nextTask, results, dpc, dpath, joinIdx, dequeued,
                   executed, closedByDestroy, uaf>>

\* The shutdown flag is set: unlock and pthread_exit.
W_Exit(w) ==
    /\ wpc[w] = "check"
    /\ ~WaitCond
    /\ ExitCond
    /\ lock' = NoOwner
    /\ wpc' = [wpc EXCEPT ![w] = "exited"]
    /\ UNCHANGED <<sgVars, psVars, rlVars, rcVars, hcVars, queue, head, tail, count, shutdown, poolFreed, wtask, apc,
                   nextTask, results, dpc, dpath, joinIdx, dequeued, executed,
                   closedByDestroy, uaf>>

\* Take the task at the head of the queue and unlock.
W_Dequeue(w) ==
    /\ wpc[w] = "check"
    /\ ~WaitCond
    /\ ~ExitCond
    /\ wtask' = [wtask EXCEPT ![w] = queue[DequeueSlot]]
    /\ queue' = TakenSlot(queue, DequeueSlot)
    /\ head' = NextIndex(head)
    /\ count' = count - 1
    /\ lock' = LockAfterDequeue(w)
    /\ wpc' = [wpc EXCEPT ![w] = "run"]
    /\ dequeued' = IF queue[DequeueSlot] = NoTask THEN dequeued
                   ELSE Append(dequeued, queue[DequeueSlot])
    /\ UNCHANGED <<sgVars, psVars, rlVars, rcVars, hcVars, tail, shutdown, poolFreed, apc, nextTask, results, dpc,
                   dpath, joinIdx, executed, closedByDestroy, uaf>>

\* if (task) { handle_client(...); free(task); }, then back to the top.
W_Run(w) ==
    /\ wpc[w] = "run"
    /\ executed' = IF wtask[w] = NoTask THEN executed
                   ELSE executed \cup {wtask[w]}
    /\ wtask' = [wtask EXCEPT ![w] = NoTask]
    /\ wpc' = [wpc EXCEPT ![w] = "lock"]
    /\ UNCHANGED <<sgVars, psVars, rlVars, rcVars, hcVars, queue, head, tail, count, shutdown, lock, poolFreed, apc,
                   nextTask, results, dpc, dpath, joinIdx, dequeued,
                   closedByDestroy, uaf>>

Worker(w) == W_Lock(w) \/ W_Wait(w) \/ W_Exit(w) \/ W_Dequeue(w) \/ W_Run(w)

(* --------------------------- thread_pool_add --------------------------- *)
\* The acceptor passes a non-NULL pool and a freshly allocated task
\* (server_start), so the NULL-argument return is not taken.

\* pthread_mutex_lock(&pool->lock).  The acceptor starts a submission only
\* on a pool that has not been freed.
A_Lock ==
    /\ apc = "idle"
    /\ nextTask <= MaxTasks
    /\ poolFreed = 0
    /\ lock = NoOwner
    /\ lock' = AcceptorId
    /\ apc' = "locked"
    /\ UNCHANGED <<sgVars, psVars, rlVars, rcVars, hcVars, queue, head, tail, count, shutdown, poolFreed, wpc, wtask,
                   nextTask, results, dpc, dpath, joinIdx, dequeued, executed,
                   closedByDestroy, uaf>>

\* The queue is full: unlock, return -1.
A_Full ==
    /\ apc = "locked"
    /\ poolFreed = 0
    /\ QueueFull
    /\ lock' = NoOwner
    /\ apc' = "idle"
    /\ results' = [results EXCEPT ![nextTask] = "fail"]
    /\ nextTask' = nextTask + 1
    /\ UNCHANGED <<sgVars, psVars, rlVars, rcVars, hcVars, queue, head, tail, count, shutdown, poolFreed, wpc, wtask,
                   dpc, dpath, joinIdx, dequeued, executed, closedByDestroy,
                   uaf>>

\* The pool is shutting down: unlock, return -1.
A_ShuttingDown ==
    /\ apc = "locked"
    /\ poolFreed = 0
    /\ ~QueueFull
    /\ AddSeesShutdown
    /\ lock' = NoOwner
    /\ apc' = "idle"
    /\ results' = [results EXCEPT ![nextTask] = "fail"]
    /\ nextTask' = nextTask + 1
    /\ UNCHANGED <<sgVars, psVars, rlVars, rcVars, hcVars, queue, head, tail, count, shutdown, poolFreed, wpc, wtask,
                   dpc, dpath, joinIdx, dequeued, executed, closedByDestroy,
                   uaf>>

\* Store the task at the tail, pthread_cond_signal (one waiting worker, if
\* any, is woken), unlock, return 0.
A_Enqueue ==
    /\ apc = "locked"
    /\ poolFreed = 0
    /\ ~QueueFull
    /\ ~AddSeesShutdown
    /\ queue' = [queue EXCEPT ![tail] = nextTask]
    /\ tail' = NextIndex(tail)
    /\ count' = count + 1
    /\ \/ /\ SignalTargets = {}
          /\ wpc' = wpc
       \/ \E w \in SignalTargets : wpc' = [wpc EXCEPT ![w] = "lock"]
    /\ lock' = NoOwner
    /\ apc' = "idle"
    /\ results' = [results EXCEPT ![nextTask] = "ok"]
    /\ nextTask' = nextTask + 1
    /\ UNCHANGED <<sgVars, psVars, rlVars, rcVars, hcVars, head, shutdown, poolFreed, wtask, dpc, dpath, joinIdx,
                   dequeued, executed, closedByDestroy, uaf>>

\* thread_pool_destroy freed the pool while the acceptor was inside
\* thread_pool_add: the rest of the call reads freed memory, and what it
\* returns is undefined.
A_Freed ==
    /\ apc = "locked"
    /\ poolFreed > 0
    /\ \E r \in {"ub_ok", "ub_fail"} : results' = [results EXCEPT ![nextTask] = r]
    /\ nextTask' = nextTask + 1
    /\ apc' = "idle"
    /\ uaf' = uaf \cup {AcceptorId}
    /\ UNCHANGED <<sgVars, psVars, rlVars, rcVars, hcVars, queue, head, tail, count, shutdown, lock, poolFreed, wpc,
                   wtask, dpc, dpath, joinIdx, dequeued, executed,
                   closedByDestroy>>

Add == A_Lock \/ A_Full \/ A_ShuttingDown \/ A_Enqueue \/ A_Freed

(* ------------------------- thread_pool_destroy ------------------------- *)

\* pthread_mutex_lock(&pool->lock) on a live pool.
D_Lock(d) ==
    /\ dpc[d] = "start"
    /\ poolFreed = 0
    /\ lock = NoOwner
    /\ lock' = DestroyerId(d)
    /\ dpc' = [dpc EXCEPT ![d] = "check"]
    /\ UNCHANGED <<sgVars, psVars, rlVars, rcVars, hcVars, queue, head, tail, count, shutdown, poolFreed, wpc, wtask,
                   apc, nextTask, results, dpath, joinIdx, dequeued, executed,
                   closedByDestroy, uaf>>

\* pthread_mutex_lock(&pool->lock) after the other invocation destroyed the
\* mutex and freed the pool: undefined behaviour.  The call may block for
\* ever on the dead mutex, may read a non-zero shutdown flag and return, or
\* may read zero and run the join loop and the clean-up once more.
D_LockFreed(d) ==
    /\ dpc[d] = "start"
    /\ poolFreed > 0
    /\ uaf' = uaf \cup {DestroyerId(d)}
    /\ dpath' = [dpath EXCEPT ![d] = "ub"]
    /\ \E o \in {"done", "hung", "cleanup"} : dpc' = [dpc EXCEPT ![d] = o]
    /\ UNCHANGED <<sgVars, psVars, rlVars, rcVars, hcVars, queue, head, tail, count, shutdown, lock, poolFreed, wpc,
                   wtask, apc, nextTask, results, joinIdx, dequeued, executed,
                   closedByDestroy>>

\* The pool is already shutting down: unlock and return.
D_Early(d) ==
    /\ dpc[d] = "check"
    /\ shutdown
    /\ lock' = NoOwner
    /\ dpc' = [dpc EXCEPT ![d] = "done"]
    /\ dpath' = [dpath EXCEPT ![d] = "early"]
    /\ UNCHANGED <<sgVars, psVars, rlVars, rcVars, hcVars, queue, head, tail, count, shutdown, poolFreed, wpc, wtask,
                   apc, nextTask, results, joinIdx, dequeued, executed,
                   closedByDestroy, uaf>>

\* Set the shutdown flag, broadcast, unlock.
D_Set(d) ==
    /\ dpc[d] = "check"
    /\ ~shutdown
    /\ shutdown' = TRUE
    /\ wpc' = [w \in Workers |-> IF w \in BroadcastWoken THEN "lock" ELSE wpc[w]]
    /\ lock' = NoOwner
    /\ dpc' = [dpc EXCEPT ![d] = "join"]
    /\ dpath' = [dpath EXCEPT ![d] = "set"]
    /\ joinIdx' = [joinIdx EXCEPT ![d] = 1]
    /\ UNCHANGED <<sgVars, psVars, rlVars, rcVars, hcVars, queue, head, tail, count, poolFreed, wtask, apc, nextTask,
                   results, dequeued, executed, closedByDestroy, uaf>>

\* One iteration of the join loop.
D_Join(d) ==
    /\ dpc[d] = "join"
    /\ joinIdx[d] <= NumWorkers
    /\ JoinReady(joinIdx[d])
    /\ joinIdx' = [joinIdx EXCEPT ![d] = joinIdx[d] + 1]
    /\ UNCHANGED <<sgVars, psVars, rlVars, rcVars, hcVars, queue, head, tail, count, shutdown, lock, poolFreed, wpc,
                   wtask, apc, nextTask, results, dpc, dpath, dequeued,
                   executed, closedByDestroy, uaf>>

\* The join loop is over.
D_Joined(d) ==
    /\ dpc[d] = "join"
    /\ joinIdx[d] > NumWorkers
    /\ dpc' = [dpc EXCEPT ![d] = "cleanup"]
    /\ UNCHANGED <<sgVars, psVars, rlVars, rcVars, hcVars, queue, head, tail, count, shutdown, lock, poolFreed, wpc,
                   wtask, apc, nextTask, results, dpath, joinIdx, dequeued,
                   executed, closedByDestroy, uaf>>

\* Destroy the mutex and the condition, close and free every task still in
\* the queue, free the thread array, the queue and the pool; return.
D_Cleanup(d) ==
    /\ dpc[d] = "cleanup"
    /\ closedByDestroy' = closedByDestroy \cup
                              {queue[i] : i \in {j \in Slots : queue[j] # NoTask}}
    /\ poolFreed' = poolFreed + 1
    /\ dpc' = [dpc EXCEPT ![d] = "done"]
    /\ UNCHANGED <<sgVars, psVars, rlVars, rcVars, hcVars, queue, head, tail, count, shutdown, lock, wpc, wtask, apc,
                   nextTask, results, dpath, joinIdx, dequeued, executed, uaf>>

Destroy(d) ==
    \/ D_Lock(d) \/ D_LockFreed(d) \/ D_Early(d) \/ D_Set(d)
    \/ D_Join(d) \/ D_Joined(d) \/ D_Cleanup(d)

(* ----------------------------- the pool spec --------------------------- *)

\* The state thread_pool_create returns: an empty queue, the flag clear,
\* every worker started.
InitPool ==
    /\ queue = [i \in Slots |-> NoTask]
    /\ head = 0
    /\ tail = 0
    /\ count = 0
    /\ shutdown = FALSE
    /\ lock = NoOwner
    /\ poolFreed = 0
    /\ wpc = [w \in Workers |-> "lock"]
    /\ wtask = [w \in Workers |-> NoTask]
    /\ apc = "idle"
    /\ nextTask = 1
    /\ results = [t \in Tasks |-> "none"]
    /\ dpc = [d \in Destroyers |-> "start"]
    /\ dpath = [d \in Destroyers |-> "none"]
    /\ joinIdx = [d \in Destroyers |-> 0]
    /\ dequeued = <<>>
    /\ executed = {}
    /\ closedByDestroy = {}
    /\ uaf = {}

\* The rate limiter before its first use.
RLIdle ==
    /\ cfg = [enable |-> FALSE, max |-> 0, interval |-> 0]
    /\ rlInit = FALSE
    /\ table = <<>>
    /\ now = 0
    /\ calls = <<>>
    /\ rejOldest = <<>>

\* No check_rate_limit call is in progress.
RCIdle ==
    /\ cpc = [w \in Workers |-> "idle"]
    /\ caddr = [w \in Workers |-> <<>>]
    /\ cloc = [w \in Workers |-> [t |-> 0, limited |-> FALSE]]
    /\ mtx = <<>>

\* No connection is being handled.
HCIdle ==
    /\ hpc = "none"
    /\ request = <<>>
    /\ response = <<>>
    /\ result = 0
    /\ conn = <<>>

\* The main thread's signal handling and the concurrent parsers are not part
\* of a specification that does not name them.
SGIdle == sg = "off"

PSIdle == ps = "off"

Init == InitPool /\ RLIdle /\ RCIdle /\ HCIdle /\ SGIdle /\ PSIdle

Next ==
    \/ \E w \in Workers : W_Lock(w)
    \/ \E w \in Workers : W_Wait(w)
    \/ \E w \in Workers : W_Spurious(w)
    \/ \E w \in Workers : W_Exit(w)
    \/ \E w \in Workers : W_Dequeue(w)
    \/ \E w \in Workers : W_Run(w)
    \/ A_Lock
    \/ A_Full
    \/ A_ShuttingDown
    \/ A_Enqueue
    \/ A_Freed
    \/ \E d \in Destroyers : D_Lock(d)
    \/ \E d \in Destroyers : D_LockFreed(d)
    \/ \E d \in Destroyers : D_Early(d)
    \/ \E d \in Destroyers : D_Set(d)
    \/ \E d \in Destroyers : D_Join(d)
    \/ \E d \in Destroyers : D_Joined(d)
    \/ \E d \in Destroyers : D_Cleanup(d)

Spec == Init /\ [][Next]_vars

FairSpec ==
    /\ Spec
    /\ \A w \in Workers : WF_vars(Worker(w))
    /\ \A d \in Destroyers : WF_vars(Destroy(d))
    /\ WF_vars(Add)

(* ------------------------- worker pool properties ---------------------- *)

AllExited == \A w \in Workers : wpc[w] = "exited"

\* The tasks thread_pool_add stored in the queue.
Accepted == {t \in Tasks : results[t] = "ok"}

\* A step in which a thread_pool_add call on the live pool returns.
AddReturns == apc = "locked" /\ apc' = "idle" /\ poolFreed = 0

\* C1: a thread_pool_add call holding the lock of the live pool returns
\* success exactly when count < queue_size and the shutdown flag is clear;
\* a successful call stores the task at the tail, a failed one leaves the
\* queue alone.
C1_AddSucceedsIffRoom ==
    [][AddReturns =>
        /\ results'[nextTask] = "ok" <=> (count < QueueSize /\ ~shutdown)
        /\ results'[nextTask] = "ok" =>
               (count' = count + 1 /\ queue'[tail] = nextTask)
        /\ results'[nextTask] # "ok" => UNCHANGED <<sgVars, psVars, queue, head, tail, count>>
      ]_vars

\* C1 witness: a submission was rejected and the next one succeeded with the
\* flag clear, and now every worker is running a handler and the queue is
\* full again.
C1_Witness ==
    /\ ~shutdown
    /\ count = QueueSize
    /\ \A w \in Workers : wpc[w] = "run"
    /\ \E t \in Tasks : /\ t + 1 \in Tasks
                        /\ results[t] = "fail"
                        /\ results[t + 1] = "ok"

\* C2: while the pool exists, 0 <= count <= queue_size, and count is the
\* number of occupied slots, which are the count slots from head on, tail
\* being the slot after them.
C2_CountWithinCapacity ==
    poolFreed = 0 =>
        /\ 0 <= count
        /\ count <= QueueSize
        /\ head \in Slots
        /\ tail \in Slots
        /\ tail = (head + count) % QueueSize
        /\ count = Cardinality({i \in Slots : queue[i] # NoTask})
        /\ \A k \in 0..(count - 1) : queue[(head + k) % QueueSize] # NoTask

\* C2 witness: a full queue whose head has advanced, so that the occupied
\* slots wrap around the end of the array.
C2_Witness == poolFreed = 0 /\ count = QueueSize /\ head # 0

\* C3: the shutdown flag, once set, stays set, and a thread_pool_add call
\* that holds the lock with the flag set returns failure and leaves the
\* queue, its indices and count unchanged.
C3_ShutdownIsFinal ==
    [][/\ shutdown => shutdown'
       /\ (AddReturns /\ shutdown) =>
              /\ results'[nextTask] = "fail"
              /\ UNCHANGED <<sgVars, psVars, queue, head, tail, count>>
      ]_vars

\* C3 witness: the first submission was rejected although nothing was ever
\* queued, so it was rejected for the flag and not for a full queue.
C3_Witness ==
    /\ shutdown
    /\ results[1] = "fail"
    /\ count = 0
    /\ dequeued = <<>>
    /\ poolFreed = 0

\* C4: the k-th task dequeued is the k-th task accepted: tasks leave the
\* queue in the order in which their submissions succeeded.
C4_Fifo ==
    \A k \in 1..Len(dequeued) :
        /\ dequeued[k] \in Accepted
        /\ Cardinality({t \in Accepted : t < dequeued[k]}) = k - 1

\* C4 witness: more tasks were dequeued than the queue has slots (the
\* indices wrapped around), and a rejected submission lies between them.
C4_Witness ==
    /\ Len(dequeued) > QueueSize
    /\ \E t \in Tasks : results[t] = "fail" /\ t < dequeued[Len(dequeued)]

\* C5 as stated: a worker exits only on seeing the shutdown flag set and the
\* queue empty.
C5_ExitOnlyWhenDrained ==
    [][\A w \in Workers :
          (wpc[w] # "exited" /\ wpc'[w] = "exited") => (shutdown /\ count = 0)
      ]_vars

\* C5 amended: a worker that evaluates the loop condition under the lock
\* exits if and only if the shutdown flag is set, whatever count is; the
\* tasks still queued then are not executed, and once thread_pool_destroy
\* has cleaned up every accepted task was either dequeued by a worker or
\* closed and freed by thread_pool_destroy, never both.
C5_ExitOnShutdown ==
    /\ [][\A w \in Workers :
             (wpc[w] = "check" /\ wpc'[w] # "check") =>
                 (wpc'[w] = "exited" <=> shutdown)
         ]_vars
    /\ [](poolFreed > 0 =>
             /\ Accepted = {dequeued[k] : k \in 1..Len(dequeued)}
                               \cup closedByDestroy
             /\ closedByDestroy \cap executed = {})

\* C5 witness: every worker has exited and thread_pool_destroy closed a task
\* that was accepted and never executed.
C5_Witness ==
    /\ AllExited
    /\ closedByDestroy # {}
    /\ closedByDestroy \subseteq Accepted

\* C6 as stated: with two concurrent invocations of thread_pool_destroy no
\* invocation blocks for ever, the pool's resources are released once, and
\* no invocation touches the pool after the other freed it.
C6_DestroyTwiceSafe ==
    /\ \A d \in Destroyers : DestroyerId(d) \notin uaf
    /\ \A d \in Destroyers : dpc[d] # "hung"
    /\ poolFreed <= 1

\* C7 as stated: every invocation of thread_pool_destroy returns only after
\* all workers have terminated.
C7_EveryReturnAfterWorkers ==
    \A d \in Destroyers : dpc[d] = "done" => AllExited

\* C7 amended: an invocation that found the shutdown flag clear (and set it)
\* passes its join loop and returns only after all workers have terminated;
\* an invocation that finds the flag already set returns at once.
C7_SetterReturnsAfterWorkers ==
    \A d \in Destroyers :
        /\ (dpc[d] \in {"cleanup", "done"} /\ dpath[d] # "early") => AllExited
        /\ (dpc[d] = "join" /\ joinIdx[d] >= 1) =>
               \A w \in Workers : w < joinIdx[d] => wpc[w] = "exited"

\* C7 witness: one invocation set the flag, joined the workers and returned;
\* the other returned early.
C7_Witness ==
    \E d, e \in Destroyers :
        /\ dpc[d] = "done" /\ dpath[d] = "set"
        /\ dpc[e] = "done" /\ dpath[e] = "early"

\* C8: once an invocation of thread_pool_destroy has set the flag and
\* broadcast, every worker eventually exits and that invocation eventually
\* returns (every handler terminates and every thread keeps being scheduled).
C8_ShutdownTerminates ==
    /\ shutdown ~> AllExited
    /\ \A d \in Destroyers : (dpath[d] = "set") ~> (dpc[d] = "done")

\* C8 witness: the invocation that set the flag has returned after workers
\* that had tasks to run and workers that were idle have all exited.
C8_Witness ==
    /\ AllExited
    /\ executed # {}
    /\ \E d \in Destroyers : dpath[d] = "set" /\ dpc[d] = "done"


\* The tasks some worker has taken from the queue.
DequeuedSet == {dequeued[k] : k \in 1..Len(dequeued)}

\* C25: a submitted task is claimed by at most one worker: no task is
\* dequeued twice, no two workers hold the same task, a claimed task is no
\* longer in the queue, and only tasks thread_pool_add accepted are claimed
\* or executed (a task the acceptor was told was rejected, and freed, is
\* never run).
C25_ClaimedAtMostOnce ==
    /\ \A j, k \in 1..Len(dequeued) : j # k => dequeued[j] # dequeued[k]
    /\ \A v, w \in Workers :
           (v # w /\ wtask[v] # NoTask) => wtask[v] # wtask[w]
    /\ \A w \in Workers :
           wtask[w] # NoTask =>
               /\ results[wtask[w]] = "ok"
               /\ wtask[w] \in DequeuedSet
    /\ \A i \in Slots :
           queue[i] # NoTask =>
               /\ results[queue[i]] = "ok"
               /\ queue[i] \notin DequeuedSet
    /\ \A t \in executed : results[t] = "ok" /\ t \in DequeuedSet

\* C25 witness: every worker is running a task of its own while another
\* submission has been rejected and a later one waits in the queue.
C25_Witness ==
    /\ \A w \in Workers : wpc[w] = "run" /\ wtask[w] # NoTask
    /\ \E t \in Tasks : results[t] = "fail"
    /\ \E i \in Slots : queue[i] # NoTask
    /\ executed # {}

\* C26: a worker that executes a handler does not hold pool->lock, so that
\* with every worker busy the acceptor can still take the lock for a
\* submission, which is queued if there is room.
C26_HandlerRunsUnlocked ==
    /\ \A w \in Workers : wpc[w] = "run" => lock # WorkerId(w)
    /\ (/\ \A w \in Workers : wpc[w] = "run"
        /\ apc = "idle" /\ nextTask <= MaxTasks /\ poolFreed = 0
        /\ \A d \in Destroyers : lock # DestroyerId(d))
           => ENABLED A_Lock
    /\ (/\ \A w \in Workers : wpc[w] = "run"
        /\ apc = "locked" /\ poolFreed = 0 /\ ~shutdown
        /\ count < QueueSize)
           => ENABLED A_Enqueue

\* C26 witness: the acceptor holds the lock for a submission there is room
\* for while every worker is executing a handler.
C26_Witness ==
    /\ \A w \in Workers : wpc[w] = "run" /\ wtask[w] # NoTask
    /\ apc = "locked" /\ lock = AcceptorId
    /\ count < QueueSize /\ ~shutdown /\ poolFreed = 0

\* C27: thread_pool_destroy closes and frees only tasks that are still in
\* the queue when every worker has exited; a task a worker has dequeued is
\* never among them: its worker runs it to completion before it exits.
C27_DestroySparesDequeued ==
    /\ closedByDestroy \cap DequeuedSet = {}
    /\ \A t \in closedByDestroy : results[t] = "ok" /\ t \notin executed
    /\ (closedByDestroy # {} \/ poolFreed > 0) => AllExited
    /\ \A w \in Workers : wpc[w] = "exited" => wtask[w] = NoTask
    /\ AllExited => DequeuedSet \subseteq executed

\* C27 witness: the pool was destroyed with a task left in the queue, which
\* was closed, after tasks had been dequeued and executed.
C27_Witness ==
    /\ poolFreed > 0
    /\ closedByDestroy # {}
    /\ DequeuedSet # {}
    /\ DequeuedSet = executed

(* ============================ rate limiter ============================= *)

\* The capacity of the per-entry timestamp ring, timestamps[1000] in the
\* source, scaled down so that a configured maximum can lie below, at and
\* above it within the checked bounds.
RING_SIZE == 2

\* The largest configured rate_limit_max.
MaxM == 3

\* The largest configured rate_limit_interval, in seconds.
MaxW == 2

\* The largest value of the clock.
MaxTime == 3

\* The number of check_rate_limit calls in a run.
MaxChecks == 5

\* #define RATE_LIMIT_TABLE_SIZE 1024
RATE_LIMIT_TABLE_SIZE == 1024

\* sizeof(entry->ip): char ip[46].
IP_BUF == 46

\* Client addresses as strings of character codes, as inet_ntoa prints them:
\* "10.0.0.1" and "10.0.1.220", which ip_hash sends to the same slot (678).
IpA == <<49, 48, 46, 48, 46, 48, 46, 49>>
IpB == <<49, 48, 46, 48, 46, 49, 46, 50, 50, 48>>
Addrs == {IpA, IpB}

\* No timestamp.
NoTime == 0 - 1

\* ip_hash: hash = hash * 31 + c over the characters, in unsigned int
\* arithmetic, then % RATE_LIMIT_TABLE_SIZE.  The table size divides 2^32,
\* so the result depends on the low bits of the hash alone; the model keeps
\* the low 20 bits where the code keeps 32.
RECURSIVE HashFrom(_, _)
HashFrom(hash, ip) ==
    IF ip = <<>> THEN hash
    ELSE HashFrom((hash * 31 + Head(ip)) % 1048576, Tail(ip))

ip_hash(ip) == HashFrom(0, ip) % RATE_LIMIT_TABLE_SIZE

\* The table slots the modelled addresses hash to.
TableSlots == {ip_hash(a) : a \in Addrs}

\* strncpy(entry->ip, client_ip, sizeof(entry->ip) - 1) into the zeroed
\* buffer: the first 45 characters.
StoredIp(ip) == IF Len(ip) <= IP_BUF - 1 THEN ip ELSE SubSeq(ip, 1, IP_BUF - 1)

\* A zeroed table entry (memset in init_rate_limiting; static storage).
ZeroEntry ==
    [ip |-> <<>>,
     timestamps |-> [i \in 0..(RING_SIZE - 1) |-> 0],
     current_index |-> 0,
     count |-> 0]

\* Mutant: a slot in use stays with its owner when another address hashes
\* to it.
ResetIfOther_KeepOwner(e, ip) ==
    IF e.count = 0
    THEN [e EXCEPT !.ip = StoredIp(ip), !.count = 0, !.current_index = 0]
    ELSE e

\* check_rate_limit: the entry after the new-client / collision test.
ResetIfOther(e, ip) ==
    IF e.count = 0 \/ e.ip # ip
    THEN [e EXCEPT !.ip = StoredIp(ip), !.count = 0, !.current_index = 0]
    ELSE e

\* Mutant: a timestamp exactly one window old is not counted.
InWindow_Strict(ts, cutoff) == ts > cutoff

\* check_rate_limit: entry->timestamps[i] >= cutoff.
InWindow(ts, cutoff) == ts >= cutoff

\* check_rate_limit: the entries of the ring that the counting loop counts.
ValidIdx(e, cutoff) ==
    {i \in 0..(e.count - 1) : InWindow(e.timestamps[i], cutoff)}

valid_count(e, cutoff) == Cardinality(ValidIdx(e, cutoff))

\* check_rate_limit: is_limited = (valid_count >= config->rate_limit_max).
is_limited(e, cutoff) == valid_count(e, cutoff) >= cfg.max

\* Mutant: the timestamp is recorded whether the check is limited or not.
Records_Always(limited) == TRUE

\* check_rate_limit: if (!is_limited), the request is recorded.
Records(limited) == ~limited

\* Mutant: the timestamp is stored but the index is not advanced.
Recorded_NoAdvance(e, t) ==
    [e EXCEPT !.timestamps[e.current_index] = t,
              !.count = IF e.count < RING_SIZE THEN e.count + 1 ELSE e.count]

\* check_rate_limit: the entry after recording the timestamp t.
Recorded(e, t) ==
    [e EXCEPT !.timestamps[e.current_index] = t,
              !.current_index = (e.current_index + 1) % RING_SIZE,
              !.count = IF e.count < RING_SIZE THEN e.count + 1 ELSE e.count]

\* The smallest member of a non-empty set of integers.
Min(S) == CHOOSE x \in S : \A y \in S : x <= y

\* The calls made for address a, in order.
CallsOf(a) == SelectSeq(calls, LAMBDA c : c.a = a)

\* check_rate_limit with rate limiting disabled: return 0.
RL_DisabledCore(a) ==
    /\ ~cfg.enable
    /\ Len(calls) < MaxChecks
    /\ calls' = Append(calls, [a |-> a, t |-> now, r |-> 0])
    /\ UNCHANGED <<sgVars, psVars, rlInit, table, rejOldest>>

\* check_rate_limit with rate limiting enabled: the lazy initialisation, the
\* slot look-up, and under the slot's mutex the collision test, the count of
\* the timestamps in the window, the decision and the recording.
RL_CheckCore(a) ==
    /\ cfg.enable
    /\ Len(calls) < MaxChecks
    /\ LET base == IF rlInit THEN table ELSE [h \in TableSlots |-> ZeroEntry]
           hash == ip_hash(a)
           entry == ResetIfOther(base[hash], a)
           cutoff == now - cfg.interval
           limited == is_limited(entry, cutoff)
           counted == {entry.timestamps[i] : i \in ValidIdx(entry, cutoff)}
       IN  /\ table' = [base EXCEPT ![hash] = IF Records(limited)
                                                THEN Recorded(entry, now)
                                                ELSE entry]
           /\ calls' = Append(calls, [a |-> a, t |-> now,
                                      r |-> IF limited THEN 1 ELSE 0])
           /\ rejOldest' = [rejOldest EXCEPT ![a] =
                               IF limited /\ counted # {} THEN Min(counted)
                               ELSE NoTime]
    /\ rlInit' = TRUE

\* A check_rate_limit call made on its own, rate limiting disabled.
RL_Disabled(a) ==
    /\ RL_DisabledCore(a)
    /\ UNCHANGED <<sgVars, psVars, poolVars, rcVars, hcVars, cfg, now>>

\* A check_rate_limit call made on its own, rate limiting enabled.
RL_Check(a) ==
    /\ RL_CheckCore(a)
    /\ UNCHANGED <<sgVars, psVars, poolVars, rcVars, hcVars, cfg, now>>

\* A second passes: time(NULL) returns the next value.
RL_Tick ==
    /\ now < MaxTime
    /\ now' = now + 1
    /\ UNCHANGED <<sgVars, psVars, poolVars, rcVars, hcVars, cfg, rlInit, table, calls, rejOldest>>

\* The configuration is an immutable snapshot taken before the first check;
\* the table is in static storage, zero before it is first used.
InitRL ==
    /\ InitPool
    /\ SGIdle
    /\ PSIdle
    /\ cfg \in [enable : BOOLEAN, max : 0..MaxM, interval : 1..MaxW]
    /\ rlInit = FALSE
    /\ table = [h \in TableSlots |-> ZeroEntry]
    /\ now = 0
    /\ calls = <<>>
    /\ rejOldest = [a \in Addrs |-> NoTime]
    /\ RCIdle
    /\ HCIdle

NextRL ==
    \/ \E a \in Addrs : RL_Disabled(a)
    \/ \E a \in Addrs : RL_Check(a)
    \/ RL_Tick

SpecRL == InitRL /\ [][NextRL]_vars

(* ------------------------ rate limiter properties ---------------------- *)

\* The addresses other than a that hash to a's slot have made no call.
SlotUntouchedByOthers(a) ==
    \A b \in Addrs : (b # a /\ ip_hash(b) = ip_hash(a)) => CallsOf(b) = <<>>

\* The first k calls for a all lie within one window of the first.
WithinOneWindow(a, k) == CallsOf(a)[k].t - CallsOf(a)[1].t < cfg.interval

\* C9 as stated: with rate limiting enabled and maximum M >= 1, for an
\* address whose slot no other address touches, each of the first M calls
\* within one window returns allowed and the (M+1)-th returns limited.
C9_FirstMAllowedThenLimited ==
    (cfg.enable /\ cfg.max >= 1) =>
        \A a \in Addrs :
            SlotUntouchedByOthers(a) =>
                \A k \in 1..Len(CallsOf(a)) :
                    WithinOneWindow(a, k) =>
                        /\ k <= cfg.max => CallsOf(a)[k].r = 0
                        /\ k = cfg.max + 1 => CallsOf(a)[k].r = 1

\* C9 restricted to a maximum that fits the ring (holds; not the claim).
C9_WithinRing ==
    cfg.max <= RING_SIZE => C9_FirstMAllowedThenLimited

\* C10: a check for an address made more than the interval after the oldest
\* request counted by its latest, rejected, check returns allowed.
C10_AllowedAfterWindow ==
    [][\A a \in Addrs :
          (/\ Len(CallsOf(a))' = Len(CallsOf(a)) + 1
           /\ rejOldest[a] # NoTime
           /\ now > rejOldest[a] + cfg.interval)
          => calls'[Len(calls')].r = 0
      ]_vars

\* C10 witness: an address alone in its slot was rejected, and its next
\* check, made after the window of the request counted against it, was
\* allowed.
C10_Witness ==
    \E a \in Addrs :
        /\ SlotUntouchedByOthers(a)
        /\ \E k \in 1..(Len(CallsOf(a)) - 1) :
               /\ CallsOf(a)[k].r = 1
               /\ CallsOf(a)[k + 1].r = 0
               /\ CallsOf(a)[k + 1].t > CallsOf(a)[1].t + cfg.interval

(* ------------------------- collision eviction -------------------------- *)

\* The calls made for the addresses that hash to slot h, in order.
SlotCalls(h) == SelectSeq(calls, LAMBDA c : ip_hash(c.a) = h)

\* The first call of the latest run of calls by one address in sc.
RunStart(sc) ==
    Min({j \in 1..Len(sc) : \A i \in j..Len(sc) : sc[i].a = sc[Len(sc)].a})

\* The allowed calls of the latest run of calls by one address in sc.
OwnAllowed(sc) == {i \in RunStart(sc)..Len(sc) : sc[i].r = 0}

\* C11: with rate limiting enabled and a maximum of at least 1, a check for
\* an address that follows, on the same slot, a check for another address is
\* allowed, whatever the other address had used of its quota; the slot then
\* belongs to the latest caller, and its count, its index and every timestamp
\* it counts come from the allowed calls the latest caller has made since it
\* took the slot over, so that nothing recorded for the evicted address
\* remains.
C11_EvictionIsFresh ==
    (cfg.enable /\ cfg.max >= 1) =>
        \A h \in TableSlots :
            LET sc == SlotCalls(h)
            IN  /\ \A k \in 2..Len(sc) :
                       sc[k - 1].a # sc[k].a => sc[k].r = 0
                /\ Len(sc) > 0 =>
                       LET own == OwnAllowed(sc)
                           n == Cardinality(own)
                       IN  /\ table[h].ip = sc[Len(sc)].a
                           /\ table[h].count =
                                  (IF n < RING_SIZE THEN n ELSE RING_SIZE)
                           /\ table[h].current_index = n % RING_SIZE
                           /\ \A i \in 0..(table[h].count - 1) :
                                  table[h].timestamps[i] \in
                                      {sc[j].t : j \in own}

\* C11 witness: an address was rejected, the next check on its slot, for
\* another address at the same second, was allowed, and so was the check
\* for the first address that followed at that second.
C11_Witness ==
    \E k \in 1..(Len(calls) - 2) :
        /\ ip_hash(calls[k].a) = ip_hash(calls[k + 1].a)
        /\ calls[k].a # calls[k + 1].a
        /\ calls[k + 2].a = calls[k].a
        /\ calls[k].r = 1
        /\ calls[k + 1].r = 0
        /\ calls[k + 2].r = 0
        /\ calls[k + 2].t = calls[k].t

(* --------------- concurrent check_rate_limit calls (SpecRLC) ----------- *)

\* The number of check_rate_limit calls in a run of concurrent calls.
MaxRaceChecks == 3

\* The check_rate_limit calls that have started and not returned.
InFlight == {w \in Workers : cpc[w] # "idle"}

\* Mutant: init_rate_limiting leaves a table already in use as it is.
MemsetTable_KeepUsed ==
    IF \E h \in TableSlots : table[h].count > 0
    THEN table
    ELSE [h \in TableSlots |-> ZeroEntry]

\* init_rate_limiting: memset(rate_limit_table, 0, sizeof(rate_limit_table)).
MemsetTable == [h \in TableSlots |-> ZeroEntry]

\* check_rate_limit entered by worker w for address a, rate limiting
\* enabled: the unlocked test if (!rate_limit_initialized).
RC_Call(w, a) ==
    /\ cfg.enable
    /\ cpc[w] = "idle"
    /\ Len(calls) + Cardinality(InFlight) < MaxRaceChecks
    /\ caddr' = [caddr EXCEPT ![w] = a]
    /\ cpc' = [cpc EXCEPT ![w] = IF rlInit THEN "lock" ELSE "init_test"]
    /\ UNCHANGED <<sgVars, psVars, poolVars, rlVars, hcVars, cloc, mtx>>

\* init_rate_limiting: if (rate_limit_initialized) return, again unlocked.
RC_InitTest(w) ==
    /\ cpc[w] = "init_test"
    /\ cpc' = [cpc EXCEPT ![w] = IF rlInit THEN "lock" ELSE "memset"]
    /\ UNCHANGED <<sgVars, psVars, poolVars, rlVars, hcVars, caddr, cloc, mtx>>

\* init_rate_limiting: the memset of the whole table, entries in use by
\* other workers included.
RC_Memset(w) ==
    /\ cpc[w] = "memset"
    /\ table' = MemsetTable
    /\ cpc' = [cpc EXCEPT ![w] = "mutex_init"]
    /\ UNCHANGED <<sgVars, psVars, poolVars, hcVars, cfg, rlInit, now, calls, rejOldest,
                   caddr, cloc, mtx>>

\* init_rate_limiting: pthread_mutex_init on every slot, then
\* rate_limit_initialized = 1.  Initialising a mutex that another worker
\* holds is undefined: the mutex stays held, or becomes free.
RC_MutexInit(w) ==
    /\ cpc[w] = "mutex_init"
    /\ \E freed \in BOOLEAN :
           mtx' = IF freed THEN [h \in TableSlots |-> NoOwner] ELSE mtx
    /\ rlInit' = TRUE
    /\ cpc' = [cpc EXCEPT ![w] = "lock"]
    /\ UNCHANGED <<sgVars, psVars, poolVars, hcVars, cfg, table, now, calls, rejOldest,
                   caddr, cloc>>

\* check_rate_limit: pthread_mutex_lock(&entry->mutex).
RC_Lock(w) ==
    /\ cpc[w] = "lock"
    /\ mtx[ip_hash(caddr[w])] = NoOwner
    /\ mtx' = [mtx EXCEPT ![ip_hash(caddr[w])] = WorkerId(w)]
    /\ cpc' = [cpc EXCEPT ![w] = "count"]
    /\ UNCHANGED <<sgVars, psVars, poolVars, rlVars, hcVars, caddr, cloc>>

\* check_rate_limit: the collision test, now = time(NULL), the count of the
\* timestamps in the window and is_limited.
RC_Count(w) ==
    /\ cpc[w] = "count"
    /\ LET hash == ip_hash(caddr[w])
           entry == ResetIfOther(table[hash], caddr[w])
       IN  /\ table' = [table EXCEPT ![hash] = entry]
           /\ cloc' = [cloc EXCEPT ![w] =
                          [t |-> now,
                           limited |-> is_limited(entry, now - cfg.interval)]]
    /\ cpc' = [cpc EXCEPT ![w] = "record"]
    /\ UNCHANGED <<sgVars, psVars, poolVars, hcVars, cfg, rlInit, now, calls, rejOldest,
                   caddr, mtx>>

\* check_rate_limit: if (!is_limited) the timestamp is recorded; the mutex
\* is unlocked and is_limited returned.
RC_Record(w) ==
    /\ cpc[w] = "record"
    /\ LET hash == ip_hash(caddr[w])
       IN  /\ table' = [table EXCEPT ![hash] =
                           IF Records(cloc[w].limited)
                           THEN Recorded(table[hash], cloc[w].t)
                           ELSE table[hash]]
           /\ mtx' = [mtx EXCEPT ![hash] = NoOwner]
    /\ calls' = Append(calls, [a |-> caddr[w], t |-> cloc[w].t,
                               r |-> IF cloc[w].limited THEN 1 ELSE 0])
    /\ cpc' = [cpc EXCEPT ![w] = "idle"]
    /\ UNCHANGED <<sgVars, psVars, poolVars, hcVars, cfg, rlInit, now, rejOldest, caddr, cloc>>

\* The server has just started: the table and its mutexes are in zeroed
\* static storage, and the configured maximum fits the ring.
InitRLC ==
    /\ InitPool
    /\ SGIdle
    /\ PSIdle
    /\ HCIdle
    /\ cfg \in [enable : BOOLEAN, max : 1..RING_SIZE, interval : 1..MaxW]
    /\ rlInit = FALSE
    /\ table = [h \in TableSlots |-> ZeroEntry]
    /\ now = 0
    /\ calls = <<>>
    /\ rejOldest = [a \in Addrs |-> NoTime]
    /\ cpc = [w \in Workers |-> "idle"]
    /\ caddr = [w \in Workers |-> <<>>]
    /\ cloc = [w \in Workers |-> [t |-> 0, limited |-> FALSE]]
    /\ mtx = [h \in TableSlots |-> NoOwner]

NextRLC ==
    \/ \E a \in Addrs : RL_Disabled(a)
    \/ \E w \in Workers, a \in Addrs : RC_Call(w, a)
    \/ \E w \in Workers : RC_InitTest(w)
    \/ \E w \in Workers : RC_Memset(w)
    \/ \E w \in Workers : RC_MutexInit(w)
    \/ \E w \in Workers : RC_Lock(w)
    \/ \E w \in Workers : RC_Count(w)
    \/ \E w \in Workers : RC_Record(w)
    \/ RL_Tick

SpecRLC == InitRLC /\ [][NextRLC]_vars

\* The allowed calls for a whose timestamp lies in the window of length
\* cfg.interval that ends at T.
AllowedInWindow(a, T) ==
    {k \in 1..Len(calls) :
        /\ calls[k].a = a
        /\ calls[k].r = 0
        /\ calls[k].t > T - cfg.interval
        /\ calls[k].t <= T}

\* C12 as stated: with rate limiting enabled, for an address whose slot no
\* other address touches, the allowed calls with a timestamp inside any one
\* trailing window never number more than the configured maximum, however
\* the calls of the workers interleave, the first calls after the server
\* started included.
C12_AtMostMaxPerWindow ==
    cfg.enable =>
        \A a \in Addrs :
            SlotUntouchedByOthers(a) =>
                \A T \in 0..MaxTime :
                    Cardinality(AllowedInWindow(a, T)) <= cfg.max

\* C12 for checks that run one at a time, with a maximum that fits the
\* ring (holds under SpecRL; not the claim).
C12_OneAtATime ==
    cfg.max <= RING_SIZE => C12_AtMostMaxPerWindow


\* C28: the table and the slot mutexes are initialised once: whenever a
\* worker zeroes the table or initialises the mutexes, no other worker has
\* completed the initialisation, no slot mutex is held and no timestamp has
\* been recorded.
C28_InitialisedOnce ==
    [][\A w \in Workers :
           (cpc[w] \in {"memset", "mutex_init"} /\ cpc'[w] # cpc[w]) =>
               /\ ~rlInit
               /\ \A h \in TableSlots : mtx[h] = NoOwner
               /\ calls = <<>>
               /\ \A h \in TableSlots : table[h].count = 0]_vars

\* A worker that finds the table initialised on entry does not initialise
\* it.
C28_NoInitAfterFlagSeen ==
    [][\A w \in Workers :
           (cpc[w] = "idle" /\ cpc'[w] # "idle" /\ rlInit) =>
               cpc'[w] = "lock"]_vars

(* ------------------- strings, paths and the file system ---------------- *)

\* Strings that the code cuts up or searches are sequences of tokens: a path
\* is a sequence in which "/" and "." are tokens of their own, a header
\* value is a sequence of characters.

\* strstr(hay, needle) != NULL.
Contains(hay, needle) ==
    \E i \in 1..(Len(hay) - Len(needle) + 1) :
        SubSeq(hay, i, i + Len(needle) - 1) = needle

\* The digits of the %lx conversion.
HexDigits ==
    <<"0", "1", "2", "3", "4", "5", "6", "7",
      "8", "9", "a", "b", "c", "d", "e", "f">>

\* snprintf("%lx", n): n in hexadecimal, without leading zeros.
RECURSIVE Hex(_)
Hex(n) ==
    IF n < 16 THEN <<HexDigits[n + 1]>>
    ELSE Hex(n \div 16) \o <<HexDigits[(n % 16) + 1]>>

\* handle_http_request: snprintf(etag, "W/\"%lx-%lx\"", st_size, st_mtime).
MakeEtag(size, mtime) ==
    <<"W", "/", "\"">> \o Hex(size) \o <<"-">> \o Hex(mtime) \o <<"\"">>

\* config->doc_root, "./www" by default.
DocRoot == <<".", "/", "www">>

IndexHtml == <<"index", ".", "html">>

\* The document root on disk: what stat and open find there.
Disk ==
    {[path |-> DocRoot, kind |-> "dir", size |-> 0, mtime |-> 90,
      readable |-> TRUE],
     [path |-> DocRoot \o <<"/">> \o IndexHtml, kind |-> "file",
      size |-> 3000, mtime |-> 95, readable |-> TRUE],
     [path |-> DocRoot \o <<"/", "a", ".", "txt">>, kind |-> "file",
      size |-> 26, mtime |-> 96, readable |-> TRUE],
     [path |-> DocRoot \o <<"/", "locked", ".", "txt">>, kind |-> "file",
      size |-> 26, mtime |-> 96, readable |-> FALSE],
     [path |-> DocRoot \o <<"/", "docs">>, kind |-> "dir", size |-> 0,
      mtime |-> 91, readable |-> TRUE],
     [path |-> DocRoot \o <<"/", "docs", "/">> \o IndexHtml, kind |-> "file",
      size |-> 1500, mtime |-> 97, readable |-> TRUE],
     [path |-> DocRoot \o <<"/", "empty">>, kind |-> "dir", size |-> 0,
      mtime |-> 92, readable |-> TRUE],
     [path |-> DocRoot \o <<"/", "style", ".", "css">>, kind |-> "file",
      size |-> 1024, mtime |-> 98, readable |-> TRUE],
     [path |-> DocRoot \o <<"/", "app", ".", "js">>, kind |-> "file",
      size |-> 1025, mtime |-> 98, readable |-> TRUE],
     [path |-> DocRoot \o <<"/", "data", ".", "json">>, kind |-> "file",
      size |-> 2000, mtime |-> 98, readable |-> TRUE],
     [path |-> DocRoot \o <<"/", "logo", ".", "png">>, kind |-> "file",
      size |-> 5000, mtime |-> 98, readable |-> TRUE],
     [path |-> DocRoot \o <<"/", "blob">>, kind |-> "file",
      size |-> 4096, mtime |-> 98, readable |-> TRUE]}

\* stat fails: no such file.
NoFile == [path |-> <<>>, kind |-> "none", size |-> 0, mtime |-> 0,
           readable |-> FALSE]

\* Path resolution: a run of slashes counts as one slash.
RECURSIVE Collapse(_)
Collapse(p) ==
    IF Len(p) < 2 THEN p
    ELSE IF p[1] = "/" /\ p[2] = "/" THEN Collapse(Tail(p))
    ELSE <<p[1]>> \o Collapse(Tail(p))

\* stat(file_path, &st): a trailing slash resolves for a directory only.
Stat(file_path) ==
    LET p == Collapse(file_path)
        slash == Len(p) > 1 /\ p[Len(p)] = "/"
        base == IF slash THEN SubSeq(p, 1, Len(p) - 1) ELSE p
        found == {f \in Disk : f.path = base /\ (slash => f.kind = "dir")}
    IN  IF found = {} THEN NoFile ELSE CHOOSE f \in found : TRUE

\* get_mime_type: the type for the extension after the last '.'.
get_mime_type(file_path) ==
    LET dots == {i \in 1..Len(file_path) : file_path[i] = "."}
    IN  IF dots = {} THEN "application/octet-stream"
        ELSE LET last == CHOOSE i \in dots : \A j \in dots : j <= i
                 ext == SubSeq(file_path, last + 1, Len(file_path))
             IN  CASE ext \in {<<"html">>, <<"htm">>} ->
                          "text/html; charset=UTF-8"
                   [] ext = <<"txt">> -> "text/plain; charset=UTF-8"
                   [] ext = <<"css">> -> "text/css; charset=UTF-8"
                   [] ext = <<"js">> -> "application/javascript; charset=UTF-8"
                   [] ext = <<"json">> -> "application/json; charset=UTF-8"
                   [] ext \in {<<"jpg">>, <<"jpeg">>} -> "image/jpeg"
                   [] ext = <<"png">> -> "image/png"
                   [] ext = <<"gif">> -> "image/gif"
                   [] ext = <<"svg">> -> "image/svg+xml"
                   [] OTHER -> "application/octet-stream"

\* get_status_text.
get_status_text(status_code) ==
    CASE status_code = 200 -> "OK"
      [] status_code = 201 -> "Created"
      [] status_code = 204 -> "No Content"
      [] status_code = 301 -> "Moved Permanently"
      [] status_code = 302 -> "Found"
      [] status_code = 304 -> "Not Modified"
      [] status_code = 400 -> "Bad Request"
      [] status_code = 401 -> "Unauthorized"
      [] status_code = 403 -> "Forbidden"
      [] status_code = 404 -> "Not Found"
      [] status_code = 405 -> "Method Not Allowed"
      [] status_code = 500 -> "Internal Server Error"
      [] status_code = 501 -> "Not Implemented"
      [] status_code = 503 -> "Service Unavailable"
      [] OTHER -> "Unknown"

(* ------------------------- requests and responses ---------------------- *)

\* No body: a NULL body pointer.
NoBody == <<>>

\* memset(&request, 0, sizeof(request)).
ZeroRequest ==
    [method |-> "", path |-> <<>>, keep_alive |-> FALSE,
     if_none_match |-> <<>>, accept_encoding |-> <<>>]

\* memset(&response, 0, sizeof(response)); request is TRUE when the
\* response->request pointer is set.
ZeroResponse ==
    [status_code |-> 0, status_text |-> "", content_type |-> "",
     content_length |-> 0, body |-> NoBody, keep_alive |-> FALSE,
     request |-> FALSE]

\* build_http_response: status, status text and content type are set; the
\* body is kept only when it is present and its length is positive.
build_http_response(resp, status_code, content_type, body, content_length) ==
    [resp EXCEPT
        !.status_code = status_code,
        !.status_text = get_status_text(status_code),
        !.content_type = content_type,
        !.body = IF body # NoBody /\ content_length > 0 THEN body ELSE NoBody,
        !.content_length =
            IF body # NoBody /\ content_length > 0 THEN content_length ELSE 0]

\* Mutant: every method is served like GET.
MethodSupported_Any(method) == TRUE

\* handle_http_request: the method is GET or HEAD.
MethodSupported(method) == method = "GET" \/ method = "HEAD"

\* Mutant: an If-None-Match header of any content matches.
EtagMatches_Any(if_none_match, etag) == if_none_match # <<>>

\* handle_http_request: if_none_match is not empty and contains the etag.
EtagMatches(if_none_match, etag) ==
    if_none_match # <<>> /\ Contains(if_none_match, etag)

\* Mutant: the body of a HEAD response is kept.
IsHead_Never(method) == FALSE

\* handle_http_request: strcmp(request->method, HTTP_METHOD_HEAD) == 0.
IsHead(method) == method = "HEAD"

\* handle_http_request from the ETag on, for the file file_path with stat
\* result st: the answer is [resp, read, redirect_path], the response and
\* whether read_file_content was called.
ServeFile(req, resp, file_path, st) ==
    LET mime_type == get_mime_type(file_path)
        etag == MakeEtag(st.size, st.mtime)
    IN  IF EtagMatches(req.if_none_match, etag)
        THEN [resp |-> [resp EXCEPT !.status_code = 304,
                                    !.status_text = "Not Modified",
                                    !.content_type = mime_type,
                                    !.content_length = 0,
                                    !.body = NoBody,
                                    !.keep_alive = req.keep_alive],
              read |-> FALSE, redirect_path |-> <<>>]
        ELSE IF ~st.readable
        THEN [resp |-> build_http_response(resp, 500,
                           "text/plain; charset=UTF-8",
                           <<"Internal Server Error">>, 21),
              read |-> TRUE, redirect_path |-> <<>>]
        ELSE LET content == IF IsHead(req.method) THEN NoBody ELSE file_path
                 content_length == IF IsHead(req.method) THEN 0 ELSE st.size
             IN  [resp |-> build_http_response(resp, 200, mime_type, content,
                                               content_length),
                  read |-> TRUE, redirect_path |-> <<>>]

\* handle_http_request: the 404 answer.
NotFound(resp) ==
    [resp |-> build_http_response(resp, 404, "text/plain; charset=UTF-8",
                                  <<"Not Found">>, 9),
     read |-> FALSE, redirect_path |-> <<>>]

\* handle_http_request.  In the 301 branch redirect_path is a local buffer
\* that is filled and then dropped: nothing of it reaches the response.
handle_http_request(req, resp) ==
    IF ~MethodSupported(req.method)
    THEN [resp |-> build_http_response(resp, 405, "text/plain; charset=UTF-8",
                                       <<"Method Not Allowed">>, 18),
          read |-> FALSE, redirect_path |-> <<>>]
    ELSE LET file_path == IF req.path = <<"/">>
                          THEN DocRoot \o <<"/">> \o IndexHtml
                          ELSE DocRoot \o req.path
             st == Stat(file_path)
         IN  IF st = NoFile THEN NotFound(resp)
             ELSE IF st.kind = "dir"
             THEN IF req.path[Len(req.path)] # "/"
                  THEN [resp |-> [resp EXCEPT
                                     !.status_code = 301,
                                     !.status_text = "Moved Permanently",
                                     !.content_type =
                                         "text/plain; charset=UTF-8",
                                     !.content_length = 0,
                                     !.body = NoBody,
                                     !.keep_alive = req.keep_alive],
                        read |-> FALSE,
                        redirect_path |-> req.path \o <<"/">>]
                  ELSE LET index_path ==
                               DocRoot \o req.path \o <<"/">> \o IndexHtml
                           ist == Stat(index_path)
                       IN  IF ist = NoFile THEN NotFound(resp)
                           ELSE ServeFile(req, resp, index_path, ist)
             ELSE ServeFile(req, resp, file_path, st)

(* --------------------------- send_http_response ------------------------ *)

\* The default of config->gzip_min_size.
GZIP_MIN_SIZE == 1024

\* Mutant: the rate-limit response asks to keep the connection.
RateLimitResponse_KeepAlive ==
    [ZeroResponse EXCEPT
        !.status_code = 429,
        !.status_text = "Too Many Requests",
        !.content_type = "text/plain",
        !.content_length = 42,
        !.body = <<"Too many requests. Please try again later.">>,
        !.keep_alive = TRUE]

\* handle_client: rate_limit_response, built on a zeroed http_response_t
\* (its request pointer stays NULL).
RateLimitResponse ==
    [ZeroResponse EXCEPT
        !.status_code = 429,
        !.status_text = "Too Many Requests",
        !.content_type = "text/plain",
        !.content_length = 42,
        !.body = <<"Too many requests. Please try again later.">>,
        !.keep_alive = FALSE]

\* Mutant: every response is given the one-day policy.
CacheControl_OneDay(resp) == "public, max-age=86400"

\* send_http_response: the Cache-Control value, by status and content type.
CacheControl(resp) ==
    IF resp.status_code # 200 THEN "no-store"
    ELSE IF resp.content_type = "text/html; charset=UTF-8"
    THEN "public, max-age=3600"
    ELSE IF resp.content_type \in {"text/css; charset=UTF-8",
                                   "application/javascript; charset=UTF-8"}
    THEN "public, max-age=604800"
    ELSE IF resp.content_type \in {"image/jpeg", "image/png", "image/gif",
                                   "image/svg+xml"}
    THEN "public, max-age=2592000"
    ELSE "public, max-age=86400"

\* send_http_response: the content types whose prefix makes them
\* compressible (text/, application/json, application/javascript, ...).
Compressible(content_type) ==
    content_type \in {"text/html; charset=UTF-8", "text/plain; charset=UTF-8",
                      "text/plain", "text/css; charset=UTF-8",
                      "application/json; charset=UTF-8",
                      "application/javascript; charset=UTF-8"}

\* client_accepts_gzip: strstr(accept_encoding, "gzip") != NULL.
client_accepts_gzip(accept_encoding) == Contains(accept_encoding, <<"gzip">>)

\* Mutant: the Accept-Encoding of the request is not looked at.
TriesGzip_AnyClient(req, resp) ==
    /\ cfg.enable_gzip
    /\ resp.body # NoBody
    /\ resp.content_length > cfg.gzip_min_size
    /\ resp.status_code = 200
    /\ resp.request
    /\ Compressible(resp.content_type)

\* send_http_response: the conditions under which gzip_compress_data is
\* called for the response resp to the request req.
TriesGzip(req, resp) ==
    /\ cfg.enable_gzip
    /\ resp.body # NoBody
    /\ resp.content_length > cfg.gzip_min_size
    /\ resp.status_code = 200
    /\ resp.request
    /\ Compressible(resp.content_type)
    /\ client_accepts_gzip(req.accept_encoding)

\* No compression: gzip_compress_data not called, or failed.
NoGzip == 0 - 1

\* gzip_compress_data as the connection records it: whether it was called,
\* and the compressed size it gave (NoGzip when it gave none).
NotCompressed == [called |-> FALSE, size |-> NoGzip]

\* What gzip_compress_data can give for n bytes: a failure, or a size that
\* depends on the data (smaller, or larger by the gzip header and trailer).
GzipOutcomes(n) == {NoGzip, n \div 2, n + 18}

\* Mutant: the Connection header always says close.
ConnectionHeader_Close(resp) == "close"

\* send_http_response: response->keep_alive ? "keep-alive" : "close".
ConnectionHeader(resp) == IF resp.keep_alive THEN "keep-alive" ELSE "close"

\* send_http_response: the header block, for the compressed size gz (or
\* NoGzip); names are the header lines the format string holds.
WireHeader(resp, gz) ==
    [status_code |-> resp.status_code,
     status_text |-> resp.status_text,
     content_type |-> resp.content_type,
     content_length |-> IF gz # NoGzip THEN gz ELSE resp.content_length,
     cache_control |-> CacheControl(resp),
     etag |-> IF resp.status_code = 200
              THEN MakeEtag(resp.content_length, now) ELSE <<>>,
     content_encoding |-> IF gz # NoGzip THEN "gzip" ELSE "",
     connection |-> ConnectionHeader(resp),
     names |-> {"Server", "Date", "Content-Type", "Content-Length",
                "Cache-Control", "Connection"}
               \cup (IF resp.status_code = 200 THEN {"ETag"} ELSE {})
               \cup (IF gz # NoGzip THEN {"Content-Encoding"} ELSE {})]

\* No header block written.
NoHeader == <<>>

(* ------------------ handle_client, one connection (SpecConn) ----------- *)

\* The number of requests a client sends on one connection.
MaxRequests == 1

\* The failed accept() calls counted after the shutdown (later ones are not
\* told apart).
MaxFailedAccepts == 2

\* inet_ntoa(client_addr.sin_addr) of the connection.
ClientIp == IpA

\* The requests a client sends: request lines and headers as
\* parse_http_request stores them.
Methods == {"GET", "HEAD", "POST", ""}

Paths ==
    {<<"/">>,
     <<"/", "a", ".", "txt">>,
     <<"/", "locked", ".", "txt">>,
     <<"/", "docs">>,
     <<"/", "docs", "/">>,
     <<"/", "empty">>,
     <<"/", "empty", "/">>,
     <<"/", "nope">>}

\* If-None-Match values: none; the validator of a.txt (26 = 0x1a bytes,
\* mtime 96 = 0x60); a list that holds it; the validator of docs/index.html
\* (1500 = 0x5dc bytes, mtime 97 = 0x61); a validator of an older a.txt.
IfNoneMatches ==
    {<<>>,
     <<"W", "/", "\"", "1", "a", "-", "6", "0", "\"">>,
     <<"\"", "x", "\"", ",", " ", "W", "/", "\"", "1", "a", "-", "6", "0", "\"">>,
     <<"W", "/", "\"", "5", "d", "c", "-", "6", "1", "\"">>,
     <<"W", "/", "\"", "1", "a", "-", "5", "f", "\"">>}

AcceptEncodings == {<<>>, <<"deflate", ",", " ", "gzip">>}

Requests ==
    [method : Methods, path : Paths, keep_alive : BOOLEAN,
     if_none_match : IfNoneMatches, accept_encoding : AcceptEncodings]

\* Mutant: only a negative result ends the loop.
ParseFailed_Neg(r) == r < 0

\* handle_client: if (result <= 0) break.
ParseFailed(r) == r <= 0

\* config->keep_alive_timeout, the SO_RCVTIMEO handle_client sets, in
\* seconds (the default).
\* What send() may return for len bytes on the non-blocking socket: len,
\* the number of bytes the socket buffer had room for, or -1 (EAGAIN,
\* EPIPE, ECONNRESET).
SendResults(len) == {len, len \div 2, 0 - 1}

\* Of the response in progress, nothing has been written to the socket.
NothingSent == [hdr |-> FALSE, body |-> 0]

keep_alive_timeout == 5

\* server_start: fcntl(client_socket, F_SETFL, flags | O_NONBLOCK) on every
\* accepted socket.
SocketNonBlocking == TRUE

\* How long recv() waits when no byte has arrived: SO_RCVTIMEO bounds the
\* wait of a blocking socket; on a non-blocking socket recv() returns -1
\* (EAGAIN) at once.
RecvWait == IF SocketNonBlocking THEN 0 ELSE keep_alive_timeout

\* The connection as handle_client finds it, nothing done on it yet; parsed,
\* read, hdr, gzip (what gzip_compress_data did), body and writes describe
\* the current iteration of the loop.
NewConn ==
    [open |-> TRUE,
     checks |-> 0,
     recvs |-> 0,
     nodata |-> FALSE,
     waited |-> 0,
     n429 |-> 0,
     rejected |-> FALSE,
     failed |-> FALSE,
     actedAfterFail |-> FALSE,
     parsed |-> FALSE,
     read |-> FALSE,
     redirect_path |-> <<>>,
     hdr |-> NoHeader,
     gzip |-> NotCompressed,
     body |-> NoBody,
     sent |-> NothingSent,
     writes |-> 0]

\* handle_client: if (check_rate_limit(client_ip)).  A limited client gets
\* rate_limit_response; otherwise the request is zeroed for the parser.
HC_Check ==
    /\ hpc = "check"
    /\ conn.checks <= MaxRequests
    /\ RL_CheckCore(ClientIp) \/ RL_DisabledCore(ClientIp)
    /\ LET limited == calls'[Len(calls')].r = 1
           c == [conn EXCEPT !.checks = @ + 1,
                             !.actedAfterFail = @ \/ conn.failed,
                             !.parsed = FALSE, !.read = FALSE,
                             !.redirect_path = <<>>,
                             !.hdr = NoHeader, !.gzip = NotCompressed,
                             !.body = NoBody, !.sent = NothingSent,
                             !.writes = 0]
       IN  IF limited
           THEN /\ response' = RateLimitResponse
                /\ conn' = [c EXCEPT !.rejected = TRUE]
                /\ hpc' = "send_header"
                /\ UNCHANGED request
           ELSE /\ request' = ZeroRequest
                /\ conn' = c
                /\ hpc' = "parse"
                /\ UNCHANGED response
    /\ UNCHANGED <<sgVars, psVars, poolVars, rcVars, cfg, now, result>>

\* parse_http_request returns 0 (the peer closed) or -1 (recv failed, or
\* there was no request line, or no byte of the request had arrived when
\* recv was called and none came while it waited): nothing is stored.
HC_ParseFail ==
    /\ hpc = "parse"
    /\ \E cause \in {"closed", "error", "nodata"} :
           LET r == IF cause = "closed" THEN 0 ELSE 0 - 1
           IN  /\ result' = r
               /\ hpc' = IF ParseFailed(r) THEN "close" ELSE "handle"
               /\ conn' = [conn EXCEPT
                              !.recvs = @ + 1,
                              !.nodata = (cause = "nodata"),
                              !.waited = IF cause = "nodata" THEN RecvWait
                                         ELSE 0,
                              !.actedAfterFail = @ \/ conn.failed]
    /\ UNCHANGED <<sgVars, psVars, poolVars, rlVars, rcVars, request, response>>

\* parse_http_request reads a request and returns 1.
HC_ParseOk ==
    /\ hpc = "parse"
    /\ \E req \in Requests : request' = req
    /\ result' = 1
    /\ hpc' = IF ParseFailed(1) THEN "close" ELSE "handle"
    /\ conn' = [conn EXCEPT !.recvs = @ + 1, !.parsed = TRUE,
                            !.actedAfterFail = @ \/ conn.failed]
    /\ UNCHANGED <<sgVars, psVars, poolVars, rlVars, rcVars, response>>

\* handle_client: the response is zeroed, takes the keep-alive flag and the
\* pointer to the request, and handle_http_request fills it.
HC_Handle ==
    /\ hpc = "handle"
    /\ LET fresh == [ZeroResponse EXCEPT !.keep_alive = request.keep_alive,
                                         !.request = TRUE]
           h == handle_http_request(request, fresh)
       IN  /\ response' = h.resp
           /\ conn' = [conn EXCEPT !.read = h.read,
                                   !.redirect_path = h.redirect_path]
    /\ hpc' = "send_header"
    /\ UNCHANGED <<sgVars, psVars, poolVars, rlVars, rcVars, request, result>>

\* send_http_response: the header block is built and passed to send(),
\* whose result is not looked at.
HC_SendHeader ==
    /\ hpc = "send_header"
    /\ \E ok \in BOOLEAN :
       \E gz \in (IF TriesGzip(request, response)
                  THEN GzipOutcomes(response.content_length)
                  ELSE {NoGzip}) :
           conn' = [conn EXCEPT
                       !.hdr = WireHeader(response, gz),
                       !.sent = [hdr |-> ok, body |-> 0],
                       !.gzip = [called |-> TriesGzip(request, response),
                                 size |-> gz],
                       !.writes = @ + 1,
                       !.n429 = IF response.status_code = 429
                                THEN @ + 1 ELSE @,
                       !.actedAfterFail = @ \/ conn.failed,
                       !.failed = @ \/ ~ok]
    /\ hpc' = IF response.body # NoBody /\ response.content_length > 0
              THEN "send_body" ELSE "after"
    /\ UNCHANGED <<sgVars, psVars, poolVars, rlVars, rcVars, request, response, result>>

\* send_http_response: the body, compressed if the header said so, is passed
\* to send(), whose result is not looked at.
HC_SendBody ==
    /\ hpc = "send_body"
    /\ \E n \in SendResults(conn.hdr.content_length) :
           conn' = [conn EXCEPT
                       !.body = [data |-> response.body,
                                 len |-> conn.hdr.content_length,
                                 gzip |-> conn.hdr.content_encoding = "gzip"],
                       !.sent.body = IF n < 0 THEN 0 ELSE n,
                       !.writes = @ + 1,
                       !.actedAfterFail = @ \/ conn.failed,
                       !.failed = @ \/ (n # conn.hdr.content_length)]
    /\ hpc' = "after"
    /\ UNCHANGED <<sgVars, psVars, poolVars, rlVars, rcVars, request, response, result>>

\* handle_client after send_http_response: the strings are freed; the loop
\* is left after the rate-limit response, and after a response to a request
\* that did not ask for keep-alive.
HC_After ==
    /\ hpc = "after"
    /\ hpc' = IF ~response.request THEN "close"
              ELSE IF ~request.keep_alive THEN "close"
              ELSE "check"
    /\ UNCHANGED <<sgVars, psVars, poolVars, rlVars, rcVars, request, response, result, conn>>

\* handle_client: close(client_socket).
HC_Close ==
    /\ hpc = "close"
    /\ conn' = [conn EXCEPT !.open = FALSE]
    /\ hpc' = "closed"
    /\ UNCHANGED <<sgVars, psVars, poolVars, rlVars, rcVars, request, response, result>>

\* A worker has taken the connection and is about to enter the loop of
\* handle_client; the configuration is a snapshot taken at start.
InitConn ==
    /\ InitPool
    /\ SGIdle
    /\ PSIdle
    /\ RCIdle
    /\ cfg \in [enable : BOOLEAN, max : 1..RING_SIZE, interval : {MaxW},
                enable_gzip : BOOLEAN, gzip_min_size : {GZIP_MIN_SIZE}]
    /\ rlInit = FALSE
    /\ table = [h \in TableSlots |-> ZeroEntry]
    /\ now = 0
    /\ calls = <<>>
    /\ rejOldest = [a \in Addrs |-> NoTime]
    /\ hpc = "check"
    /\ request = ZeroRequest
    /\ response = ZeroResponse
    /\ result = 0
    /\ conn = NewConn

NextConn ==
    \/ HC_Check
    \/ HC_ParseFail
    \/ HC_ParseOk
    \/ HC_Handle
    \/ HC_SendHeader
    \/ HC_SendBody
    \/ HC_After
    \/ HC_Close

SpecConn == InitConn /\ [][NextConn]_vars

\* Once a response is built the handler goes on to the end of the
\* iteration: send() on the non-blocking socket, free() and close() return.
FairSpecConn ==
    /\ SpecConn
    /\ WF_vars(HC_SendHeader)
    /\ WF_vars(HC_SendBody)
    /\ WF_vars(HC_After)
    /\ WF_vars(HC_Close)

(* ------------------------ connection properties ------------------------ *)

\* The handler is past handle_http_request in an iteration that parsed a
\* request: request and response are those of this iteration.
Answering == hpc \in {"send_header", "send_body", "after"} /\ response.request

\* The header block of the current iteration has been passed to send().
HeaderWritten == conn.hdr # NoHeader

\* C13: once check_rate_limit has rejected the client, the handler writes
\* one response, a 429 "Too Many Requests" of type text/plain with
\* Connection: close and the fixed 42-byte message as body, reads and checks
\* nothing more, and closes the socket.
C13_RejectedGets429AndClose ==
    /\ [](conn.rejected =>
            /\ conn.n429 <= 1
            /\ ~response.request
            /\ HeaderWritten =>
                  /\ conn.hdr.status_code = 429
                  /\ conn.hdr.status_text = "Too Many Requests"
                  /\ conn.hdr.content_type = "text/plain"
                  /\ conn.hdr.content_length = 42
                  /\ conn.hdr.connection = "close"
            /\ hpc \in {"after", "close", "closed"} =>
                  /\ conn.n429 = 1
                  /\ conn.writes = 2
                  /\ conn.body.data =
                         <<"Too many requests. Please try again later.">>
                  /\ conn.body.len = 42)
    /\ [][conn.rejected =>
             /\ conn'.recvs = conn.recvs
             /\ conn'.checks = conn.checks
             /\ conn'.rejected]_vars
    /\ [](~conn.rejected => conn.n429 = 0)
    /\ (conn.rejected ~> (hpc = "closed" /\ ~conn.open))

\* C13 witness: a client that was served one request with keep-alive was
\* rejected on the next check, got the 429 and the socket is closed.
C13_Witness ==
    /\ conn.rejected
    /\ conn.checks = 2
    /\ conn.recvs = 1
    /\ conn.n429 = 1
    /\ hpc = "closed"
    /\ ~conn.open

\* The loop was left because parse_http_request did not return success.
LeftOnParseFailure ==
    hpc \in {"close", "closed"} /\ ~conn.parsed /\ ~conn.rejected

\* C14: when parse_http_request returns 0 or a negative value (the peer
\* closed, the receive failed or timed out, there was no request line) the
\* handler writes nothing in that iteration, leaves the loop and closes the
\* socket; whatever is written on the socket, apart from the rate-limit
\* response, is written after a parse that returned success.
C14_NoResponseWithoutParse ==
    /\ [][(hpc = "parse" /\ result' <= 0) =>
             (hpc' = "close" /\ conn'.writes = 0 /\ conn'.hdr = NoHeader)]_vars
    /\ [](LeftOnParseFailure =>
             (result <= 0 /\ conn.writes = 0 /\ conn.hdr = NoHeader))
    /\ [](conn.writes > 0 =>
             (conn.rejected \/ (conn.parsed /\ result = 1)))
    /\ [](hpc \in {"handle", "send_body"} => (conn.rejected \/ conn.parsed))
    /\ (LeftOnParseFailure ~> (hpc = "closed" /\ ~conn.open))

\* C14 witness: the second read on a keep-alive connection failed or timed
\* out; nothing was written in that iteration and the socket is closed.
C14_Witness ==
    /\ LeftOnParseFailure
    /\ hpc = "closed"
    /\ ~conn.open
    /\ result < 0
    /\ conn.recvs = 2
    /\ conn.writes = 0

\* C15: for every response to a parsed request (200, 301, 304, 404, 405 or
\* 500) the response's keep-alive flag and its Connection header are those
\* the request asked for; after the response the handler closes the socket
\* when the request did not ask for keep-alive, and otherwise goes back to
\* the top of the loop with the socket open, where the next request is
\* parsed into a zeroed Request.
C15_KeepAliveDecides ==
    /\ [](Answering =>
             /\ response.status_code \in {200, 301, 304, 404, 405, 500}
             /\ response.keep_alive = request.keep_alive
             /\ HeaderWritten =>
                    /\ conn.hdr.status_code = response.status_code
                    /\ conn.hdr.connection =
                           (IF request.keep_alive THEN "keep-alive"
                            ELSE "close"))
    /\ [][(hpc = "after" /\ response.request /\ hpc' # hpc) =>
             IF request.keep_alive
             THEN hpc' = "check" /\ conn'.open
             ELSE hpc' = "close"]_vars
    /\ [](hpc = "parse" => (request = ZeroRequest /\ conn.hdr = NoHeader))
    /\ ((Answering /\ ~request.keep_alive) ~> (hpc = "closed" /\ ~conn.open))
    /\ ((Answering /\ request.keep_alive) ~> (hpc = "check" /\ conn.open))

\* C15 witness: a 500 response to a keep-alive request was written with
\* Connection: keep-alive and the handler is back at the top of the loop
\* with the socket open.
C15_Witness ==
    /\ hpc = "check"
    /\ conn.open
    /\ conn.checks = 1
    /\ HeaderWritten
    /\ conn.hdr.status_code = 500
    /\ conn.hdr.connection = "keep-alive"
    /\ request.keep_alive

\* C16 as stated: once a write of a response has failed, the handler writes,
\* checks the rate limit and reads no more on the connection.
C16_WriteErrorIsFatal == ~conn.actedAfterFail

\* C16: what the code does keep after a failed write is that the socket is
\* closed at the end when the request did not ask for keep-alive (holds; not
\* the claim).
C16_ClosedWithoutKeepAlive ==
    (conn.failed /\ Answering /\ ~request.keep_alive)
        ~> (hpc = "closed" /\ ~conn.open)

\* C17: a parsed request whose method is neither GET nor HEAD (POST, or the
\* empty method a malformed request line leaves) is answered 405 "Method
\* Not Allowed" whatever its path, without the file system being read, and
\* after the response the connection stays open exactly when the request
\* asked for keep-alive.
C17_OtherMethods405 ==
    /\ []((Answering /\ request.method \notin {"GET", "HEAD"}) =>
             /\ response.status_code = 405
             /\ response.status_text = "Method Not Allowed"
             /\ response.keep_alive = request.keep_alive
             /\ ~conn.read
             /\ HeaderWritten =>
                    /\ conn.hdr.status_code = 405
                    /\ conn.hdr.connection =
                           (IF request.keep_alive THEN "keep-alive"
                            ELSE "close"))
    /\ [][(/\ hpc = "after"
           /\ response.request
           /\ request.method \notin {"GET", "HEAD"}
           /\ hpc' # hpc) =>
             IF request.keep_alive
             THEN hpc' = "check" /\ conn'.open
             ELSE hpc' = "close"]_vars

\* C17 witness: a keep-alive request with an empty method for an existing
\* file was answered 405 and the handler is back at the top of the loop.
C17_Witness ==
    /\ hpc = "check"
    /\ conn.open
    /\ request.method = ""
    /\ request.path = <<"/", "a", ".", "txt">>
    /\ request.keep_alive
    /\ HeaderWritten
    /\ conn.hdr.status_code = 405

\* The file system entry a GET or HEAD request for path resolves to: the
\* entry itself, index.html for "/" and for a directory named with a
\* trailing slash.
Resolved(path) == Stat(DocRoot \o path)

\* C18 as stated: a GET for an existing directory named without a trailing
\* slash is answered 301 without body, and the response carries the
\* redirect target, the path with "/" appended; a GET for a path that does
\* not exist is answered 404.
C18_RedirectCarriesTarget ==
    (Answering /\ request.method = "GET") =>
        /\ (Resolved(request.path).kind = "dir"
            /\ request.path[Len(request.path)] # "/") =>
               /\ response.status_code = 301
               /\ response.body = NoBody
               /\ HeaderWritten => "Location" \in conn.hdr.names
        /\ Resolved(request.path) = NoFile => response.status_code = 404

\* C18 without the redirect target (holds; not the claim): the statuses are
\* 301 without body and 404, and the target is computed but stays in the
\* handler.
C18_StatusOnly ==
    (Answering /\ request.method = "GET") =>
        /\ (Resolved(request.path).kind = "dir"
            /\ request.path[Len(request.path)] # "/") =>
               /\ response.status_code = 301
               /\ response.body = NoBody
               /\ response.content_length = 0
               /\ conn.redirect_path = request.path \o <<"/">>
        /\ Resolved(request.path) = NoFile => response.status_code = 404

\* The file a GET or HEAD request for path is answered from: index.html for
\* "/" and for a directory named with a trailing slash, else the file
\* itself; NoFile when there is none.
ServedFile(path) ==
    IF path = <<"/">> THEN Stat(DocRoot \o <<"/">> \o IndexHtml)
    ELSE IF Resolved(path).kind = "dir"
    THEN IF path[Len(path)] = "/"
         THEN Stat(DocRoot \o path \o <<"/">> \o IndexHtml)
         ELSE NoFile
    ELSE Resolved(path)

\* C19: for a GET or HEAD request answered from an existing file, when the
\* request's If-None-Match contains the validator W/"<size-hex>-<mtime-hex>"
\* of the file the answer is 304 without body, with length 0 in the response
\* and in the Content-Length header, nothing is written after the header and
\* read_file_content is not called; when it does not contain the validator
\* the file is read and the answer is the 200 of the normal path (500 if
\* the read fails).  For a.txt, 26 bytes with mtime 96, the validator is
\* W/"1a-60".
C19_ValidatorGives304 ==
    (Answering /\ request.method \in {"GET", "HEAD"}
               /\ ServedFile(request.path) # NoFile) =>
        LET f == ServedFile(request.path)
            validator == <<"W", "/", "\"">> \o Hex(f.size) \o <<"-">>
                         \o Hex(f.mtime) \o <<"\"">>
        IN  /\ Contains(request.if_none_match, validator) =>
                   /\ response.status_code = 304
                   /\ response.body = NoBody
                   /\ response.content_length = 0
                   /\ ~conn.read
                   /\ conn.body = NoBody
                   /\ HeaderWritten =>
                          /\ conn.hdr.status_code = 304
                          /\ conn.hdr.content_length = 0
                          /\ conn.writes = 1
            /\ ~Contains(request.if_none_match, validator) =>
                   /\ conn.read
                   /\ response.status_code =
                          (IF f.readable THEN 200 ELSE 500)
            /\ (/\ request.path = <<"/", "a", ".", "txt">>
                /\ request.if_none_match =
                       <<"W", "/", "\"", "1", "a", "-", "6", "0", "\"">>) =>
                   response.status_code = 304

\* C19 witness: a HEAD request for a file that cannot be opened, whose
\* If-None-Match lists the file's validator after another one, was answered
\* 304 with Content-Length 0, and the file was not read.
C19_Witness ==
    /\ hpc = "after"
    /\ request.method = "HEAD"
    /\ request.path = <<"/", "locked", ".", "txt">>
    /\ Len(request.if_none_match) > 9
    /\ conn.hdr.status_code = 304
    /\ conn.hdr.content_length = 0
    /\ ~conn.read
    /\ conn.writes = 1

\* C20: a 200 response to a HEAD request has no body and length 0: the
\* Content-Length header says 0, where the same file requested with GET
\* gives the size of the file, and nothing is written after the header.
C20_HeadHasLengthZero ==
    (Answering /\ response.status_code = 200) =>
        /\ request.method = "HEAD" =>
               /\ response.body = NoBody
               /\ response.content_length = 0
               /\ hpc # "send_body"
               /\ conn.body = NoBody
               /\ HeaderWritten =>
                      /\ conn.hdr.content_length = 0
                      /\ conn.hdr.content_encoding = ""
                      /\ conn.writes = 1
        /\ request.method = "GET" =>
               /\ response.body # NoBody
               /\ response.content_length = ServedFile(request.path).size

\* C20 witness: a HEAD request for "/" was answered 200 with Content-Length
\* 0 after index.html, 3000 bytes long, had been read.
C20_Witness ==
    /\ hpc = "after"
    /\ request.method = "HEAD"
    /\ request.path = <<"/">>
    /\ conn.hdr.status_code = 200
    /\ conn.hdr.content_length = 0
    /\ conn.read
    /\ ServedFile(request.path).size = 3000

(* -------------- send_http_response on its own (SpecSend) --------------- *)

\* The requests whose responses send_http_response is given: those of
\* Requests and requests for files of every kind of content type.
SendPaths ==
    Paths \cup {<<"/", "style", ".", "css">>,
                <<"/", "app", ".", "js">>,
                <<"/", "data", ".", "json">>,
                <<"/", "logo", ".", "png">>,
                <<"/", "blob">>}

SendRequests ==
    [method : {"GET", "HEAD", "POST"},
     path : SendPaths,
     keep_alive : BOOLEAN,
     if_none_match : {<<>>, <<"W", "/", "\"", "1", "a", "-", "6", "0", "\"">>},
     accept_encoding : AcceptEncodings \cup {<<"identity">>}]

\* send_http_response is entered with the response handle_http_request has
\* built for a parsed request, or with the rate-limit response.
InitSend ==
    /\ InitPool
    /\ SGIdle
    /\ PSIdle
    /\ RCIdle
    /\ cfg \in [enable : {TRUE}, max : {1}, interval : {MaxW},
                enable_gzip : BOOLEAN, gzip_min_size : {GZIP_MIN_SIZE}]
    /\ rlInit = FALSE
    /\ table = [h \in TableSlots |-> ZeroEntry]
    /\ now \in 0..MaxTime
    /\ calls = <<>>
    /\ rejOldest = [a \in Addrs |-> NoTime]
    /\ hpc = "send_header"
    /\ \/ /\ request \in SendRequests
          /\ response =
                 handle_http_request(
                     request,
                     [ZeroResponse EXCEPT !.keep_alive = request.keep_alive,
                                          !.request = TRUE]).resp
          /\ result = 1
          /\ conn = [NewConn EXCEPT !.checks = 1, !.recvs = 1,
                                    !.parsed = TRUE]
       \/ /\ request = ZeroRequest
          /\ response = RateLimitResponse
          /\ result = 0
          /\ conn = [NewConn EXCEPT !.checks = 1, !.rejected = TRUE]

NextSend ==
    \/ HC_SendHeader
    \/ HC_SendBody

SpecSend == InitSend /\ [][NextSend]_vars

\* C21: the cache headers written depend on the status and the content
\* type alone.  A 200 carries an ETag header and Cache-Control: public with
\* max-age 3600 for text/html, 604800 for text/css and
\* application/javascript, 2592000 for image/*, 86400 for any other type;
\* every other status (301, 304, 404, 405, 429, 500) carries
\* Cache-Control: no-store and no ETag.
C21_CacheHeaders ==
    HeaderWritten =>
        /\ "Cache-Control" \in conn.hdr.names
        /\ conn.hdr.status_code \in {200, 301, 304, 404, 405, 429, 500}
        /\ conn.hdr.status_code = 200 =>
               /\ "ETag" \in conn.hdr.names
               /\ conn.hdr.etag # <<>>
               /\ conn.hdr.cache_control =
                      (CASE conn.hdr.content_type = "text/html; charset=UTF-8"
                              -> "public, max-age=3600"
                         [] conn.hdr.content_type \in
                                {"text/css; charset=UTF-8",
                                 "application/javascript; charset=UTF-8"}
                              -> "public, max-age=604800"
                         [] conn.hdr.content_type = "image/png"
                              -> "public, max-age=2592000"
                         [] OTHER -> "public, max-age=86400")
        /\ conn.hdr.status_code # 200 =>
               /\ "ETag" \notin conn.hdr.names
               /\ conn.hdr.etag = <<>>
               /\ conn.hdr.cache_control = "no-store"

\* C21 witness: the header of a 200 response of type image/png was written
\* with the one-month policy and an ETag.
C21_Witness ==
    /\ HeaderWritten
    /\ conn.hdr.status_code = 200
    /\ conn.hdr.content_type = "image/png"
    /\ conn.hdr.cache_control = "public, max-age=2592000"
    /\ "ETag" \in conn.hdr.names

\* The response in hand may be compressed: gzip is enabled, the status is
\* 200, there is a body longer than the minimum, the type is compressible
\* and the request lists gzip in Accept-Encoding.
GzipEligible ==
    /\ cfg.enable_gzip
    /\ response.status_code = 200
    /\ response.body # NoBody
    /\ response.content_length > cfg.gzip_min_size
    /\ response.content_type \in
           {"text/html; charset=UTF-8", "text/plain; charset=UTF-8",
            "text/css; charset=UTF-8", "application/json; charset=UTF-8",
            "application/javascript; charset=UTF-8"}
    /\ response.request
    /\ Contains(request.accept_encoding, <<"gzip">>)

\* C22: the header carries Content-Encoding: gzip exactly when the response
\* is eligible (gzip enabled, status 200, body longer than the minimum,
\* compressible type, Accept-Encoding lists gzip) and the compression
\* succeeded, and Content-Length is then the compressed size; in every
\* other case (identity client, failed compression, the 429 response that
\* has no request) there is no Content-Encoding and Content-Length is the
\* original length.  The body written has the length the header gives.
C22_GzipExactlyWhenEligible ==
    /\ HeaderWritten =>
           /\ conn.gzip.called <=> GzipEligible
           /\ "Content-Encoding" \in conn.hdr.names
                  <=> (GzipEligible /\ conn.gzip.size # NoGzip)
           /\ "Content-Encoding" \in conn.hdr.names =>
                  /\ conn.hdr.content_encoding = "gzip"
                  /\ conn.hdr.content_length = conn.gzip.size
           /\ "Content-Encoding" \notin conn.hdr.names =>
                  /\ conn.hdr.content_encoding = ""
                  /\ conn.hdr.content_length = response.content_length
    /\ (HeaderWritten /\ conn.body # NoBody) =>
           /\ conn.body.len = conn.hdr.content_length
           /\ conn.body.gzip <=> "Content-Encoding" \in conn.hdr.names

\* C22 witness: a compressed response was written, header and body, with a
\* Content-Length different from the length of the file.
C22_Witness ==
    /\ HeaderWritten
    /\ hpc = "after"
    /\ GzipEligible
    /\ "Content-Encoding" \in conn.hdr.names
    /\ conn.body # NoBody
    /\ conn.body.gzip
    /\ conn.hdr.content_length # response.content_length

\* A response that was eligible but whose compression failed went out
\* uncompressed.
C22_FailedCompression ==
    ~(/\ HeaderWritten
      /\ GzipEligible
      /\ conn.gzip.called
      /\ conn.gzip.size = NoGzip)

(* ------- server_start, handle_signal and server_stop (SpecSig) --------- *)

\* The main thread in server_start, and the same thread inside
\* handle_signal: the handler runs on the stack of the thread it interrupts.
MainId == <<"main", 0>>

HandlerId == <<"handler", 0>>

\* The main thread runs its own code only while no handler is on its stack.
HandlerOff == sg.hp \in {"none", "done"}

\* handle_signal has returned, the listening socket is closed, the pool is
\* destroyed and server_start has left its loop.
ShutdownComplete ==
    /\ sg.hp = "done"
    /\ ~sg.server_socket
    /\ sg.destroyed
    /\ sg.mpc = "returned"

\* The state when server_start enters its loop: workers waiting, nothing
\* queued, no lock held, no signal received.
NewSig ==
    [mpc |-> "top",
     mnext |-> "none",
     hp |-> "none",
     hnext |-> "none",
     log_mutex |-> NoOwner,
     pool_lock |-> NoOwner,
     server_socket |-> TRUE,
     thread_pool |-> TRUE,
     shutdown |-> FALSE,
     destroyed |-> FALSE,
     count |-> 0,
     ws |-> [w \in Workers |-> "wait"],
     signalled |-> FALSE,
     at |-> "none",
     interrupted |-> FALSE,
     failed_accepts |-> 0]

\* server_start: the top of while (1), log_message before accept().
M_Top ==
    /\ HandlerOff
    /\ sg.mpc = "top"
    /\ sg' = [sg EXCEPT !.mpc = "log", !.mnext = "accept"]
    /\ UNCHANGED <<poolVars, rlVars, rcVars, hcVars, psVars>>

\* log_message in the main thread: pthread_mutex_lock(&log_mutex).
M_LogLock ==
    /\ HandlerOff
    /\ sg.mpc = "log"
    /\ sg.log_mutex = NoOwner
    /\ sg' = [sg EXCEPT !.mpc = "logging", !.log_mutex = MainId]
    /\ UNCHANGED <<poolVars, rlVars, rcVars, hcVars, psVars>>

\* log_message in the main thread: the lines are written and the mutex is
\* released; the caller goes on.
M_LogUnlock ==
    /\ HandlerOff
    /\ sg.mpc = "logging"
    /\ sg' = [sg EXCEPT !.mpc = sg.mnext, !.mnext = "none",
                        !.log_mutex = NoOwner]
    /\ UNCHANGED <<poolVars, rlVars, rcVars, hcVars, psVars>>

\* server_start: accept() returns a connection, which is logged, made
\* non-blocking and wrapped in a task.
M_Accept ==
    /\ HandlerOff
    /\ sg.mpc = "accept"
    /\ sg.server_socket
    /\ ~sg.interrupted
    /\ sg' = [sg EXCEPT !.mpc = "log", !.mnext = "add"]
    /\ UNCHANGED <<poolVars, rlVars, rcVars, hcVars, psVars>>

\* server_start: accept() fails.  A call the handler interrupted returns
\* EINTR, and the loop is left, or it is restarted (signal() installs the
\* handler with SA_RESTART where it has BSD semantics) and then fails like
\* every call on the closed socket, with EBADF: the error is logged and the
\* loop continues.
M_AcceptFails ==
    /\ HandlerOff
    /\ sg.mpc = "accept"
    /\ sg.interrupted \/ ~sg.server_socket
    /\ \E restart \in BOOLEAN :
           IF sg.interrupted /\ ~restart
           THEN sg' = [sg EXCEPT !.mpc = "log", !.mnext = "returned",
                                 !.interrupted = FALSE]
           ELSE sg' = [sg EXCEPT !.mpc = "log", !.mnext = "top",
                                 !.interrupted = FALSE,
                                 !.failed_accepts =
                                     IF @ < MaxFailedAccepts THEN @ + 1 ELSE @]
    /\ UNCHANGED <<poolVars, rlVars, rcVars, hcVars, psVars>>

\* thread_pool_add(thread_pool, task): pthread_mutex_lock(&pool->lock).
M_AddLock ==
    /\ HandlerOff
    /\ sg.mpc = "add"
    /\ sg.thread_pool
    /\ sg.pool_lock = NoOwner
    /\ sg' = [sg EXCEPT !.mpc = "add_locked", !.pool_lock = MainId]
    /\ UNCHANGED <<poolVars, rlVars, rcVars, hcVars, psVars>>

\* thread_pool_add(NULL, task) returns -1: server_stop has set thread_pool
\* to NULL.  The failure is logged and the loop continues.
M_AddNull ==
    /\ HandlerOff
    /\ sg.mpc = "add"
    /\ ~sg.thread_pool
    /\ sg' = [sg EXCEPT !.mpc = "log", !.mnext = "top"]
    /\ UNCHANGED <<poolVars, rlVars, rcVars, hcVars, psVars>>

\* thread_pool_add with the lock held: the task is queued unless the queue
\* is full or the pool is shutting down; the lock is released, the outcome
\* is logged and the loop continues.
M_AddUnlock ==
    /\ HandlerOff
    /\ sg.mpc = "add_locked"
    /\ sg' = [sg EXCEPT !.mpc = "log", !.mnext = "top",
                        !.pool_lock = NoOwner,
                        !.count = IF sg.count = QueueSize \/ sg.shutdown
                                  THEN @ ELSE @ + 1]
    /\ UNCHANGED <<poolVars, rlVars, rcVars, hcVars, psVars>>

\* SIGINT or SIGTERM is delivered to the main thread, wherever it is:
\* handle_signal starts with a log_message.
Sig_Deliver ==
    /\ ~sg.signalled
    /\ sg.mpc # "returned"
    /\ sg' = [sg EXCEPT !.signalled = TRUE,
                        !.at = sg.mpc,
                        !.interrupted = (sg.mpc = "accept"),
                        !.hp = "log", !.hnext = "close"]
    /\ UNCHANGED <<poolVars, rlVars, rcVars, hcVars, psVars>>

\* log_message in the handler: pthread_mutex_lock(&log_mutex).  log_mutex is
\* a default mutex: locked by the interrupted code of the same thread, it
\* is never released.
H_LogLock ==
    /\ sg.hp = "log"
    /\ sg.log_mutex = NoOwner
    /\ sg' = [sg EXCEPT !.hp = "logging", !.log_mutex = HandlerId]
    /\ UNCHANGED <<poolVars, rlVars, rcVars, hcVars, psVars>>

\* log_message in the handler: the mutex is released.
H_LogUnlock ==
    /\ sg.hp = "logging"
    /\ sg' = [sg EXCEPT !.hp = sg.hnext, !.hnext = "none",
                        !.log_mutex = NoOwner]
    /\ UNCHANGED <<poolVars, rlVars, rcVars, hcVars, psVars>>

\* server_stop: close(server_socket); server_socket = -1.
H_Close ==
    /\ sg.hp = "close"
    /\ sg' = [sg EXCEPT !.server_socket = FALSE, !.hp = "destroy"]
    /\ UNCHANGED <<poolVars, rlVars, rcVars, hcVars, psVars>>

\* thread_pool_destroy in the handler: pthread_mutex_lock(&pool->lock).
H_DestroyLock ==
    /\ sg.hp = "destroy"
    /\ sg.pool_lock = NoOwner
    /\ sg' = [sg EXCEPT !.hp = "destroy_locked", !.pool_lock = HandlerId]
    /\ UNCHANGED <<poolVars, rlVars, rcVars, hcVars, psVars>>

\* thread_pool_destroy: the shutdown flag is set, the workers are woken and
\* the lock is released.
H_DestroySet ==
    /\ sg.hp = "destroy_locked"
    /\ sg' = [sg EXCEPT !.shutdown = TRUE, !.pool_lock = NoOwner,
                        !.hp = "join"]
    /\ UNCHANGED <<poolVars, rlVars, rcVars, hcVars, psVars>>

\* thread_pool_destroy: every pthread_join has returned.
H_Join ==
    /\ sg.hp = "join"
    /\ \A w \in Workers : sg.ws[w] = "exited"
    /\ sg' = [sg EXCEPT !.hp = "cleanup"]
    /\ UNCHANGED <<poolVars, rlVars, rcVars, hcVars, psVars>>

\* thread_pool_destroy: the queued tasks and the pool are freed, which is
\* logged.
H_Cleanup ==
    /\ sg.hp = "cleanup"
    /\ sg' = [sg EXCEPT !.destroyed = TRUE, !.count = 0,
                        !.hp = "log", !.hnext = "stopped"]
    /\ UNCHANGED <<poolVars, rlVars, rcVars, hcVars, psVars>>

\* server_stop: thread_pool = NULL, the log file is closed, "Server
\* stopped" is logged and handle_signal returns.
H_Stopped ==
    /\ sg.hp = "stopped"
    /\ sg' = [sg EXCEPT !.thread_pool = FALSE,
                        !.hp = "log", !.hnext = "done"]
    /\ UNCHANGED <<poolVars, rlVars, rcVars, hcVars, psVars>>

\* worker_thread: the worker holds pool->lock, there being a task or the
\* shutdown flag to find.
SW_Lock(w) ==
    /\ sg.ws[w] = "wait"
    /\ sg.count > 0 \/ sg.shutdown
    /\ sg.pool_lock = NoOwner
    /\ sg' = [sg EXCEPT !.ws[w] = "locked", !.pool_lock = WorkerId(w)]
    /\ UNCHANGED <<poolVars, rlVars, rcVars, hcVars, psVars>>

\* worker_thread with the lock held: the worker exits if the pool is
\* shutting down, takes a task otherwise; the lock is released.
SW_Take(w) ==
    /\ sg.ws[w] = "locked"
    /\ sg' = [sg EXCEPT !.pool_lock = NoOwner,
                        !.ws[w] = IF sg.shutdown THEN "exited"
                                  ELSE IF sg.count > 0 THEN "run"
                                  ELSE "wait",
                        !.count = IF ~sg.shutdown /\ sg.count > 0
                                  THEN @ - 1 ELSE @]
    /\ UNCHANGED <<poolVars, rlVars, rcVars, hcVars, psVars>>

\* handle_client in a worker: log_message takes log_mutex.
SW_LogLock(w) ==
    /\ sg.ws[w] = "run"
    /\ sg.log_mutex = NoOwner
    /\ sg' = [sg EXCEPT !.ws[w] = "logging", !.log_mutex = WorkerId(w)]
    /\ UNCHANGED <<poolVars, rlVars, rcVars, hcVars, psVars>>

\* handle_client in a worker returns: the mutex is released, the task is
\* freed and the worker goes back to the queue.
SW_LogUnlock(w) ==
    /\ sg.ws[w] = "logging"
    /\ sg' = [sg EXCEPT !.ws[w] = "wait", !.log_mutex = NoOwner]
    /\ UNCHANGED <<poolVars, rlVars, rcVars, hcVars, psVars>>

InitSig ==
    /\ InitPool
    /\ RLIdle
    /\ RCIdle
    /\ HCIdle
    /\ PSIdle
    /\ sg = NewSig

NextSig ==
    \/ M_Top
    \/ M_LogLock
    \/ M_LogUnlock
    \/ M_Accept
    \/ M_AcceptFails
    \/ M_AddLock
    \/ M_AddNull
    \/ M_AddUnlock
    \/ Sig_Deliver
    \/ H_LogLock
    \/ H_LogUnlock
    \/ H_Close
    \/ H_DestroyLock
    \/ H_DestroySet
    \/ H_Join
    \/ H_Cleanup
    \/ H_Stopped
    \/ \E w \in Workers : SW_Lock(w)
    \/ \E w \in Workers : SW_Take(w)
    \/ \E w \in Workers : SW_LogLock(w)
    \/ \E w \in Workers : SW_LogUnlock(w)

SpecSig == InitSig /\ [][NextSig]_vars

\* Every thread that can take a step takes one; a thread waiting for a
\* mutex that is released again and again gets it.
FairSpecSig ==
    /\ SpecSig
    /\ WF_vars(M_Top) /\ SF_vars(M_LogLock) /\ WF_vars(M_LogUnlock)
    /\ WF_vars(M_AcceptFails)
    /\ SF_vars(M_AddLock) /\ WF_vars(M_AddNull) /\ WF_vars(M_AddUnlock)
    /\ SF_vars(H_LogLock) /\ WF_vars(H_LogUnlock) /\ WF_vars(H_Close)
    /\ SF_vars(H_DestroyLock) /\ WF_vars(H_DestroySet) /\ WF_vars(H_Join)
    /\ WF_vars(H_Cleanup) /\ WF_vars(H_Stopped)
    /\ \A w \in Workers :
           /\ SF_vars(SW_Lock(w)) /\ WF_vars(SW_Take(w))
           /\ SF_vars(SW_LogLock(w)) /\ WF_vars(SW_LogUnlock(w))

\* C23: once a termination signal has been delivered, at whatever point of
\* the main thread (blocked in accept, inside thread_pool_add with
\* pool->lock held, inside log_message with log_mutex held), the shutdown
\* eventually completes: the listening socket is closed, the pool is
\* stopped and destroyed, and server_start leaves its loop.
C23_ShutdownCompletes == sg.signalled ~> ShutdownComplete

\* The handler never waits for a mutex that the code it interrupted holds.
C23_NoSelfDeadlock ==
    /\ ~(sg.hp = "log" /\ sg.log_mutex = MainId)
    /\ ~(sg.hp = "destroy" /\ sg.pool_lock = MainId)

\* After the shutdown the loop does not call accept() on the closed socket.
C23_NoRetryOnClosedSocket == sg.failed_accepts < MaxFailedAccepts

\* A signal that finds the main thread blocked in accept() is handled to the
\* end: the socket is closed and the pool destroyed when the handler returns.
C23_HandledFromAccept ==
    (sg.signalled /\ sg.at = "accept")
        ~> (sg.hp = "done" /\ ~sg.server_socket /\ sg.destroyed)

\* server_start returns only from an accept() that the signal interrupted.
C23_ReturnsOnlyOnEintr ==
    sg.mpc = "returned" => (ShutdownComplete /\ sg.at = "accept")

(* --------- parse_http_request in several workers (SpecParse) ----------- *)

\* The bytes of a buffer are its elements: "\r", "\n", " ", the terminator
\* NUL, and pieces of text that hold none of these.
NUL == "\\0"

Delims == {"\r", "\n"}

\* The byte at index i of buffer b; the buffer is zero-filled behind the
\* bytes received.
At(b, i) == IF i \in 1..Len(b) THEN b[i] ELSE NUL

\* s + strspn(s, "\r\n"): the first byte from i on that is no delimiter.
RECURSIVE SkipDelims(_, _)
SkipDelims(b, i) == IF At(b, i) \in Delims THEN SkipDelims(b, i + 1) ELSE i

\* s + strcspn(s, "\r\n"): the first delimiter or NUL from i on.
RECURSIVE TokenEnd(_, _)
TokenEnd(b, i) ==
    IF At(b, i) \in Delims \cup {NUL} THEN i ELSE TokenEnd(b, i + 1)

\* The end of the C string that starts at i: the first NUL from i on.
RECURSIVE StrEnd(_, _)
StrEnd(b, i) == IF At(b, i) = NUL THEN i ELSE StrEnd(b, i + 1)

\* The C string that starts at index i of b.
CStr(b, i) == SubSeq(b, i, StrEnd(b, i) - 1)

\* strtok on buffer b from index s: leading delimiters are skipped; with
\* nothing left the result is NULL (tok = 0); else the token runs to the
\* next delimiter, which is overwritten with NUL, and the saved pointer
\* (olds) is the byte behind it.
StrTok(b, s) ==
    LET i == SkipDelims(b, s)
        e == TokenEnd(b, i)
    IN  IF At(b, i) = NUL THEN [tok |-> 0, olds |-> i, buf |-> b]
        ELSE IF At(b, e) = NUL THEN [tok |-> i, olds |-> e, buf |-> b]
        ELSE [tok |-> i, olds |-> e + 1, buf |-> [b EXCEPT ![e] = NUL]]

\* Mutant: strtok_r, the saved pointer is the caller's own.
SavedPointer_Own(w) == [w |-> w, i |-> ps.own[w]]

\* strtok(NULL, ...) continues from the one saved pointer of the process,
\* set by the latest strtok call of any thread.
SavedPointer(w) == ps.olds

\* The http_request_t after memset(&request, 0, ...), as far as
\* parse_http_request fills it (host, user_agent and content_type are left
\* out).
ZeroParsed ==
    [method |-> "", path |-> "", version |-> "",
     keep_alive |-> FALSE, content_length |-> 0,
     if_none_match |-> <<>>, accept_encoding |-> <<>>,
     has_body |-> FALSE, body |-> <<>>]

\* atoi of the value of a Content-Length header.
Atoi(value) ==
    IF value = <<"5">> THEN 5
    ELSE IF value = <<"1", "0">> THEN 10
    ELSE 0

\* sscanf(line, "%15s %2047s %15s", method, path, version), then the
\* header fields are reset.
RequestLine(req, line) ==
    LET fields == SelectSeq(line, LAMBDA x : x # " ")
    IN  [req EXCEPT
            !.method = IF Len(fields) >= 1 THEN fields[1] ELSE @,
            !.path = IF Len(fields) >= 2 THEN fields[2] ELSE @,
            !.version = IF Len(fields) >= 3 THEN fields[3] ELSE @,
            !.keep_alive = FALSE,
            !.content_length = 0,
            !.if_none_match = <<>>,
            !.accept_encoding = <<>>]

\* The body of the header loop for one line: the strncasecmp chain.
HeaderLine(req, line) ==
    LET name == line[1]
        value == Tail(line)
    IN  IF name = "Content-Length: "
        THEN [req EXCEPT !.content_length = Atoi(value)]
        ELSE IF name = "Connection: "
        THEN [req EXCEPT !.keep_alive =
                 @ \/ (\E k \in 1..Len(value) : value[k] = "keep-alive")]
        ELSE IF name = "If-None-Match: "
        THEN [req EXCEPT !.if_none_match = value]
        ELSE IF name = "Accept-Encoding: "
        THEN [req EXCEPT !.accept_encoding = value]
        ELSE req

\* strstr(buffer, "\r\n\r\n") on the buffer as strtok has left it, and
\* strdup of what follows when content_length > 0.
FindBody(req, b) ==
    LET s == CStr(b, 1)
        hits == {k \in 1..Len(s) :
                    /\ k + 3 <= Len(s)
                    /\ SubSeq(s, k, k + 3) = <<"\r", "\n", "\r", "\n">>}
    IN  IF hits # {} /\ req.content_length > 0
        THEN [req EXCEPT
                 !.has_body = TRUE,
                 !.body = CStr(b, 4 + (CHOOSE k \in hits :
                                           \A j \in hits : k <= j))]
        ELSE req

\* The header loop of one thread alone: while ((line = strtok(NULL, ...))).
RECURSIVE HeaderLoop(_, _, _)
HeaderLoop(b, s, req) ==
    LET r == StrTok(b, s)
    IN  IF r.tok = 0 THEN [req |-> req, buf |-> r.buf]
        ELSE HeaderLoop(r.buf, r.olds, HeaderLine(req, CStr(r.buf, r.tok)))

\* parse_http_request for the bytes msg, run by one thread alone: what it
\* returns and the request it leaves.
parse_http_request(msg) ==
    IF msg = <<>> THEN [result |-> 0, req |-> ZeroParsed]
    ELSE LET r == StrTok(msg, 1)
         IN  IF r.tok = 0 THEN [result |-> 0 - 1, req |-> ZeroParsed]
             ELSE LET h == HeaderLoop(
                               r.buf, r.olds,
                               RequestLine(ZeroParsed, CStr(r.buf, r.tok)))
                  IN  [result |-> 1, req |-> FindBody(h.req, h.buf)]

\* What a client sends in one read: a GET with Connection: keep-alive, a
\* conditional GET that accepts gzip, a POST with a body, a bare request
\* line, line ends only, and nothing (the peer closed).
Messages ==
    {<<"GET", " ", "/", " ", "HTTP/1.1", "\r", "\n",
       "Connection: ", "keep-alive", "\r", "\n", "\r", "\n">>,
     <<"GET", " ", "/a.txt", " ", "HTTP/1.1", "\r", "\n",
       "If-None-Match: ", "W/\"1a-60\"", "\r", "\n",
       "Accept-Encoding: ", "gzip", "\r", "\n", "\r", "\n">>,
     <<"POST", " ", "/", " ", "HTTP/1.1", "\r", "\n",
       "Content-Length: ", "5", "\r", "\n", "\r", "\n", "hello">>,
     <<"HEAD", " ", "/", " ", "HTTP/1.1", "\r", "\n", "\r", "\n">>,
     <<"\r", "\n">>,
     <<>>}

\* The workers before any of them has read from its connection.
NewParsers ==
    [pc |-> [w \in Workers |-> "recv"],
     buf |-> [w \in Workers |-> <<>>],
     sent |-> [w \in Workers |-> <<>>],
     req |-> [w \in Workers |-> ZeroParsed],
     olds |-> [w |-> 0, i |-> 0],
     own |-> [w \in Workers |-> 0]]

\* handle_client clears the request; parse_http_request zero-fills its
\* buffer and recv stores what the client of this connection sent.  With
\* nothing received the function returns at once.
P_Recv(w) ==
    /\ ps.pc[w] = "recv"
    /\ \E msg \in Messages :
           ps' = [ps EXCEPT !.buf[w] = msg,
                            !.sent[w] = msg,
                            !.req[w] = ZeroParsed,
                            !.pc[w] = IF msg = <<>> THEN "closed"
                                      ELSE "first"]
    /\ UNCHANGED <<poolVars, rlVars, rcVars, hcVars, sgVars>>

\* line = strtok(buffer, "\r\n"): NULL makes the function return -1, else
\* the request line is scanned.
P_First(w) ==
    /\ ps.pc[w] = "first"
    /\ LET r == StrTok(ps.buf[w], 1)
       IN  ps' = [ps EXCEPT
                     !.buf[w] = r.buf,
                     !.olds = [w |-> w, i |-> r.olds],
                     !.own[w] = r.olds,
                     !.req[w] = IF r.tok = 0 THEN @
                                ELSE RequestLine(@, CStr(r.buf, r.tok)),
                     !.pc[w] = IF r.tok = 0 THEN "failed" ELSE "headers"]
    /\ UNCHANGED <<poolVars, rlVars, rcVars, hcVars, sgVars>>

\* line = strtok(NULL, "\r\n"), one turn of the header loop: the token is
\* taken where the saved pointer stands, in whichever buffer that is (the
\* stack buffer of a call that has returned still holds its bytes).
P_Header(w) ==
    /\ ps.pc[w] = "headers"
    /\ LET p == SavedPointer(w)
           r == StrTok(ps.buf[p.w], p.i)
       IN  ps' = [ps EXCEPT
                     !.buf[p.w] = r.buf,
                     !.olds = [w |-> p.w, i |-> r.olds],
                     !.own[w] = r.olds,
                     !.req[w] = IF r.tok = 0 THEN @
                                ELSE HeaderLine(@, CStr(r.buf, r.tok)),
                     !.pc[w] = IF r.tok = 0 THEN "body" ELSE "headers"]
    /\ UNCHANGED <<poolVars, rlVars, rcVars, hcVars, sgVars>>

\* The body is looked for in the worker's own buffer; the function
\* returns 1.
P_Body(w) ==
    /\ ps.pc[w] = "body"
    /\ ps' = [ps EXCEPT !.req[w] = FindBody(@, ps.buf[w]),
                        !.pc[w] = "done"]
    /\ UNCHANGED <<poolVars, rlVars, rcVars, hcVars, sgVars>>

InitParse ==
    /\ InitPool
    /\ RLIdle
    /\ RCIdle
    /\ HCIdle
    /\ SGIdle
    /\ ps = NewParsers

NextParse ==
    \/ \E w \in Workers : P_Recv(w)
    \/ \E w \in Workers : P_First(w)
    \/ \E w \in Workers : P_Header(w)
    \/ \E w \in Workers : P_Body(w)

SpecParse == InitParse /\ [][NextParse]_vars

\* C24: the request a worker has built when parse_http_request returns
\* depends only on the bytes read from its own connection: it is the
\* request one thread alone builds from these bytes, whatever the other
\* workers parse meanwhile.
C24_ConnectionsIsolated ==
    \A w \in Workers :
        /\ ps.pc[w] = "done" =>
               /\ parse_http_request(ps.sent[w]).result = 1
               /\ ps.req[w] = parse_http_request(ps.sent[w]).req
        /\ ps.pc[w] = "failed" =>
               parse_http_request(ps.sent[w]).result = 0 - 1

\* A worker that parses while no other worker is between its first strtok
\* call and its last builds the request of its own bytes.
C24_AloneIsRight ==
    \A w \in Workers :
        (/\ ps.pc[w] = "done"
         /\ \A v \in Workers \ {w} : ps.pc[v] \in {"recv", "closed"})
            => ps.req[w] = parse_http_request(ps.sent[w]).req

(* ---------------- what one check_rate_limit call writes ---------------- *)

\* A step that is a check_rate_limit call for address a with rate limiting
\* enabled.
CheckStep(a) ==
    /\ cfg.enable
    /\ Len(calls') = Len(calls) + 1
    /\ calls'[Len(calls')].a = a

\* C29: a rejected check records nothing: with a maximum of at least 1 the
\* owner, the ring, the index and the count of the slot, like the rest of
\* the table, are after the check what they were before it.  An allowed
\* check writes one timestamp, now, at the current index of the slot (0
\* for a slot just taken over), leaves the other ring cells alone, advances
\* the index modulo the ring size and increments the count until it has
\* reached the ring size; no other slot changes.
C29_OnlyAllowedChecksWrite ==
    [][\A a \in Addrs :
          CheckStep(a) =>
              LET h == ip_hash(a)
                  fresh == table[h].count = 0 \/ table[h].ip # a
                  idx == IF fresh THEN 0 ELSE table[h].current_index
                  cnt == IF fresh THEN 0 ELSE table[h].count
              IN  /\ (calls'[Len(calls')].r = 1 /\ cfg.max >= 1) =>
                         table' = table
                  /\ calls'[Len(calls')].r = 0 =>
                         /\ table'[h].ip = StoredIp(a)
                         /\ table'[h].timestamps[idx] = now
                         /\ \A i \in 0..(RING_SIZE - 1) :
                                i # idx => table'[h].timestamps[i]
                                               = table[h].timestamps[i]
                         /\ table'[h].current_index = (idx + 1) % RING_SIZE
                         /\ table'[h].count =
                                (IF cnt < RING_SIZE THEN cnt + 1 ELSE cnt)
                         /\ \A g \in TableSlots :
                                g # h => table'[g] = table[g]
      ]_vars

\* C29 witness: with a maximum of at least 1, the latest check was rejected
\* after allowed checks had filled the ring and brought the index back to 0.
C29_Witness ==
    /\ cfg.enable /\ cfg.max >= 1
    /\ calls # <<>>
    /\ calls[Len(calls)].r = 1
    /\ LET e == table[ip_hash(calls[Len(calls)].a)]
       IN  /\ e.ip = calls[Len(calls)].a
           /\ e.count = RING_SIZE
           /\ e.current_index = 0

\* The latest check_rate_limit call was for a and was rejected, counting a
\* timestamp; nothing has touched the slot since.
LastRejected(a) ==
    /\ calls # <<>>
    /\ calls[Len(calls)].a = a
    /\ calls[Len(calls)].r = 1
    /\ rejOldest[a] # NoTime

\* C30 as stated: a timestamp exactly one window old is outside the window,
\* so a client that was rejected is allowed again as soon as the window has
\* passed since the oldest timestamp counted against it.
C30_AllowedAtWindow ==
    [][\A a \in Addrs :
          (/\ CheckStep(a)
           /\ rejOldest[a] # NoTime
           /\ now >= rejOldest[a] + cfg.interval)
          => calls'[Len(calls')].r = 0
      ]_vars

\* C30 amended: the check counts the timestamps that are at least
\* now - window: no timestamp it counts is older than the window, and a
\* timestamp exactly one window old is still counted, so that a client
\* rejected with oldest counted timestamp t0 is rejected again by every
\* check up to and including t0 + window.
C30_BoundaryCounted ==
    [][\A a \in Addrs :
          CheckStep(a) =>
              /\ rejOldest'[a] # NoTime => rejOldest'[a] >= now - cfg.interval
              /\ (LastRejected(a) /\ now <= rejOldest[a] + cfg.interval)
                     => calls'[Len(calls')].r = 1
      ]_vars

\* C30 witness: a client was rejected by a check made exactly one window
\* after the oldest timestamp counted against it.
C30_Witness ==
    \E a \in Addrs :
        /\ LastRejected(a)
        /\ cfg.enable /\ cfg.max >= 1
        /\ calls[Len(calls)].t = rejOldest[a] + cfg.interval

(* ------------------------ reads on the connection ---------------------- *)

\* C31: a read that finds no byte of the request on the socket waits for
\* the keep-alive interval before the handler gives the connection up: the
\* handler closes a connection for lack of data only after that wait.
C31_ReadWaitsForData ==
    conn.nodata => conn.waited >= keep_alive_timeout

(* ------------- parse_http_request of one read (SpecParseOne) ----------- *)

CRLF == <<"\r", "\n">>

\* What one client sends in one read: a request line, header lines, the
\* blank line, and a body, which may hold line ends and lines that look
\* like headers.
OneReadBodies ==
    {<<>>,
     <<"hello">>,
     <<"he", "\r", "\n", "\r", "\n", "llo">>,
     <<"Connection: ", "keep-alive", "\r", "\n">>,
     <<"Content-Length: ", "1", "0">>,
     <<"If-None-Match: ", "W/\"1a-60\"">>}

OneReads ==
    {<<m, " ", "/", " ", "HTTP/1.1">> \o CRLF \o len \o con \o CRLF \o body :
        m \in {"GET", "POST"},
        len \in {<<>>,
                 <<"Content-Length: ", "0">> \o CRLF,
                 <<"Content-Length: ", "5">> \o CRLF},
        con \in {<<>>, <<"Connection: ", "close">> \o CRLF},
        body \in OneReadBodies}

\* The first index of msg at which CRLF CRLF stands (0: nowhere).
RECURSIVE Separator(_, _)
Separator(msg, k) ==
    IF k + 3 > Len(msg) THEN 0
    ELSE IF SubSeq(msg, k, k + 3) = CRLF \o CRLF THEN k
    ELSE Separator(msg, k + 1)

\* The bytes of a read up to and with its first blank line, and the bytes
\* behind it.
HeadOf(msg) == SubSeq(msg, 1, Separator(msg, 1) + 3)

BytesAfterSeparator(msg) == SubSeq(msg, Separator(msg, 1) + 4, Len(msg))

\* One worker has read msg with recv; the others have no connection.
InitParseOne ==
    /\ InitPool
    /\ RLIdle
    /\ RCIdle
    /\ HCIdle
    /\ SGIdle
    /\ \E msg \in OneReads :
           ps = [NewParsers EXCEPT
                    !.pc = [w \in Workers |->
                               IF w = 1 THEN "first" ELSE "closed"],
                    !.buf[1] = msg,
                    !.sent[1] = msg]

NextParseOne ==
    \/ \E w \in Workers : P_First(w)
    \/ \E w \in Workers : P_Header(w)
    \/ \E w \in Workers : P_Body(w)

SpecParseOne == InitParseOne /\ [][NextParseOne]_vars

\* C32: when the headers of a read declare a Content-Length above 0 the
\* request parse_http_request returns has as its body exactly the bytes of
\* the read behind its first blank line (CRLF CRLF); with Content-Length 0
\* or no Content-Length it has no body.
C32_BodyIsBytesAfterBlankLine ==
    ps.pc[1] = "done" =>
        LET msg == ps.sent[1]
            declared == parse_http_request(HeadOf(msg)).req.content_length
        IN  IF declared > 0
            THEN /\ ps.req[1].has_body
                 /\ ps.req[1].body = BytesAfterSeparator(msg)
            ELSE ~ps.req[1].has_body

\* Without a Content-Length above 0 in the headers the request has no
\* body.
C32_NoLengthNoBody ==
    ps.pc[1] = "done" =>
        (parse_http_request(HeadOf(ps.sent[1])).req.content_length = 0
            => ~ps.req[1].has_body)

\* C33: header parsing stops at the blank line: the method, path, version
\* and header fields of the request parse_http_request returns are those of
\* the read cut behind its first blank line, whatever the body holds.
C33_BodyLinesAreNotHeaders ==
    ps.pc[1] = "done" =>
        LET parsed == ps.req[1]
            cut == parse_http_request(HeadOf(ps.sent[1])).req
        IN  /\ parsed.method = cut.method
            /\ parsed.path = cut.path
            /\ parsed.version = cut.version
            /\ parsed.keep_alive = cut.keep_alive
            /\ parsed.content_length = cut.content_length
            /\ parsed.if_none_match = cut.if_none_match
            /\ parsed.accept_encoding = cut.accept_encoding

\* A read whose body holds no line that starts like a header is parsed as
\* its head is.
C33_PlainBodyChangesNothing ==
    (/\ ps.pc[1] = "done"
     /\ \A k \in 1..Len(BytesAfterSeparator(ps.sent[1])) :
            BytesAfterSeparator(ps.sent[1])[k] \notin
                {"Connection: ", "Content-Length: ", "If-None-Match: "})
        => [ps.req[1] EXCEPT !.has_body = FALSE, !.body = <<>>]
               = parse_http_request(HeadOf(ps.sent[1])).req

(* ---------------- who closes an accepted connection (Spec) ------------- *)

\* The connections server_start has accepted and handed to thread_pool_add,
\* the call having returned.
Submitted == {t \in Tasks : results[t] # "none"}

\* How often the socket of connection t has been closed (and its task
\* freed): by server_start when thread_pool_add returned non-zero, by the
\* worker after handle_client, and by each clean-up of thread_pool_destroy
\* that found the task in the queue.
Closes(t) ==
    (IF results[t] \in {"fail", "ub_fail"} THEN 1 ELSE 0)
    + (IF t \in executed THEN 1 ELSE 0)
    + (IF t \in closedByDestroy THEN poolFreed ELSE 0)

\* The run is over: the workers have exited, the pool is destroyed and no
\* thread_pool_add call is in progress.
RunOver == AllExited /\ poolFreed > 0 /\ apc = "idle"

\* C34: the socket of every accepted connection is closed exactly once over
\* the whole run, by the acceptor, by the worker that ran its handler or by
\* thread_pool_destroy: never twice, and, when the run is over, not zero
\* times; its task is freed with it.
C34_ClosedExactlyOnce ==
    /\ \A t \in Submitted : Closes(t) <= 1
    /\ RunOver => \A t \in Submitted : Closes(t) = 1

\* As long as no thread has used the pool after it was freed, every
\* connection is closed at most once, and exactly once when the run is
\* over.
C34_ClosedOnceOnLivePool ==
    uaf = {} => C34_ClosedExactlyOnce

\* Connections closed by each of the three parties, in one finished run.
C34_Witness ==
    /\ RunOver
    /\ uaf = {}
    /\ closedByDestroy # {}
    /\ executed # {}
    /\ \E t \in Submitted : results[t] = "fail"

(* --------------- the pool at work, no shutdown (FairSpecWork) ---------- *)

\* The acceptor submits connections and the workers serve them;
\* thread_pool_destroy is not called.
NextWork ==
    \/ \E w \in Workers : W_Lock(w)
    \/ \E w \in Workers : W_Wait(w)
    \/ \E w \in Workers : W_Spurious(w)
    \/ \E w \in Workers : W_Dequeue(w)
    \/ \E w \in Workers : W_Run(w)
    \/ A_Lock
    \/ A_Full
    \/ A_Enqueue

SpecWork == Init /\ [][NextWork]_vars

\* Every worker that can take a step of its loop does so in the end, and
\* every handler returns; a worker blocked in pthread_cond_wait leaves it
\* only when it is signalled (no spurious wake-up has to come).  A
\* thread_pool_add call that holds the lock runs to its return.
FairSpecWork ==
    /\ SpecWork
    /\ WF_vars(A_Full)
    /\ WF_vars(A_Enqueue)
    /\ \A w \in Workers :
           /\ WF_vars(W_Lock(w))
           /\ WF_vars(W_Wait(w))
           /\ WF_vars(W_Dequeue(w))
           /\ WF_vars(W_Run(w))

\* C35: no wake-up is lost: without a shutdown, every task thread_pool_add
\* has stored is in the end dequeued and executed by a worker, so no worker
\* stays blocked on the condition while tasks are queued.
C35_AcceptedIsExecuted ==
    \A t \in Tasks : (results[t] = "ok") ~> (t \in executed)

\* A task was stored while every worker was blocked on the condition, and
\* has been executed.
C35_Witness ==
    \E t \in Tasks :
        /\ t \in executed
        /\ Waiting = Workers
        /\ count = 0
        /\ nextTask > t + 1

(* ------------------- bytes written for a response ---------------------- *)

\* send_http_response has returned for the response in progress.
ResponseSent == HeaderWritten /\ hpc # "send_body"

\* C36: for every response the number of body bytes written to the socket
\* is the Content-Length the header announced (the compressed size with
\* gzip, the original length without, 0 with no body), also when the socket
\* takes only part of a write or refuses it, and the header block is
\* written completely before any byte of the body.
C36_BodyBytesMatchContentLength ==
    /\ ResponseSent =>
           /\ conn.sent.hdr
           /\ conn.sent.body = conn.hdr.content_length
    /\ conn.sent.body > 0 => conn.sent.hdr

\* When send() has taken every byte it was given, the body bytes written
\* are the Content-Length announced.
C36_CompleteWritesMatch ==
    (ResponseSent /\ ~conn.failed) =>
        /\ conn.sent.hdr
        /\ conn.sent.body = conn.hdr.content_length

(* ------------------------- responses to HEAD --------------------------- *)

\* C37: no response to a HEAD request carries body bytes, whatever its
\* status (200, 301, 304, 404, 500): the Content-Length sent is 0 and no
\* body is passed to send().
C37_HeadHasNoBody ==
    (request # <<>> /\ request.method = "HEAD" /\ HeaderWritten
     /\ response.status_code # 429) =>
        /\ conn.hdr.content_length = 0
        /\ response.body = NoBody
        /\ (hpc # "send_body" => conn.body = NoBody)

\* The responses to HEAD that come from a file or a directory found (200,
\* 301, 304) carry no body.
C37_HeadFoundHasNoBody ==
    (request # <<>> /\ request.method = "HEAD" /\ HeaderWritten
     /\ response.status_code \in {200, 301, 304}) =>
        /\ conn.hdr.content_length = 0
        /\ response.body = NoBody
        /\ (hpc # "send_body" => conn.body = NoBody)

(* --------------------- the conditional-GET round trip ------------------ *)

\* The response handle_http_request builds when the client repeats its
\* request with If-None-Match set to the ETag header it has received, the
\* file being what it was.
RepeatWithEtag ==
    handle_http_request(
        [request EXCEPT !.if_none_match = conn.hdr.etag],
        [ZeroResponse EXCEPT !.keep_alive = request.keep_alive,
                             !.request = TRUE]).resp

\* C38: a client that has received a 200 response to a GET and repeats the
\* GET with If-None-Match set to the ETag header of that response, the
\* file's size and modification time unchanged, is answered 304: the ETag
\* the server sends is one its own comparison accepts.
C38_EtagRoundTrip ==
    (HeaderWritten /\ request # <<>> /\ request.method = "GET"
     /\ conn.hdr.status_code = 200) =>
        RepeatWithEtag.status_code = 304

\* The validator handle_http_request compares with, sent back by the
\* client, is answered 304.
C38_ValidatorRoundTrip ==
    (HeaderWritten /\ request # <<>> /\ request.method = "GET"
     /\ conn.hdr.status_code = 200) =>
        LET st == ServedFile(request.path)
        IN  handle_http_request(
                [request EXCEPT
                    !.if_none_match = MakeEtag(st.size, st.mtime)],
                [ZeroResponse EXCEPT !.keep_alive = request.keep_alive,
                                     !.request = TRUE]).resp.status_code = 304

(* ------------------ what the rate-limit quota is spent on -------------- *)

\* The timestamps check_rate_limit has recorded for the client of the
\* connection: one for every check that let the client pass.
RecordedTimestamps == Cardinality({k \in 1..Len(calls) : calls[k].r = 0})

\* The requests parsed, and answered, on the connection: one for each read
\* but the one that gave no request (the peer had closed, recv failed or no
\* data had arrived) and made the handler leave its loop.
Served == conn.recvs - (IF LeftOnParseFailure THEN 1 ELSE 0)

\* C39: the quota is spent only on requests that are served: when the
\* handler leaves its loop the timestamps recorded for the client are as
\* many as the requests parsed and answered on the connection; a check
\* followed by a closed, timed-out or failed read has recorded nothing.
C39_QuotaOnlyForServed ==
    (cfg.enable /\ hpc \in {"close", "closed"}) => RecordedTimestamps = Served

\* Every check that lets the client pass records one timestamp and is
\* followed by one read, whether the read gives a request or not.
C39_OneTimestampPerRead ==
    (cfg.enable /\ hpc \in {"close", "closed"}) => RecordedTimestamps = conn.recvs

====
